---- MODULE Spec2Model ----
(***************************************************************************)
(* A model of the hybrid SQL Server -> PostgreSQL sync engine              *)
(* (src/etl/hybrid_sync.py with pg_loader.py, monitoring.py and            *)
(* comprehensive_logging.py).  One process runs main(): every configured   *)
(* server, every database of it, every table of the database, step by      *)
(* step.  Every call to a collaborator (source, destination, cursor store, *)
(* metrics sink, run logger) may raise, and the process may be killed      *)
(* between two steps.                                                      *)
(***************************************************************************)
EXTENDS Integers, Sequences, FiniteSets, Bags, TLC

\* ------------------------------------------------------------------ bounds
\* Number of invocations of main() in one behaviour.
MaxRuns == 2
\* Number of collaborator calls that raise (or process kills) in one behaviour.
MaxFaults == 2
\* Number of rows the environment inserts into source tables in one behaviour.
MaxInserts == 1
\* The smallest value of a sync column; the base row of every table holds it.
FirstKey == 9
\* How many larger sync-column values exist above FirstKey.
MaxNewKeys == 2
\* Smart sync on its own: rows of the source frame, rows of the destination
\* table before the first run, and runs in a row.
MaxSmartRows == 3
MaxDestRows == 2
MaxSmartRuns == 2
MaxCount == 100
MaxSyncs == 7
MaxStamp == 2
MaxUpserts == 2
MaxNameLen == 2
MaxPasses == 3
MaxJobRuns == 2

Keys == FirstKey .. (FirstKey + MaxNewKeys)
Payloads == {1}
\* A source row: k is the column the strategy selector may pick as cursor,
\* n is a second column.
Rows == [k : Keys, n : Payloads]

\* ----------------------------------------------------------------- catalog
\* config['sqlservers'] in iteration order, and what each server holds.
Servers == <<"S1", "S2">>

DatabasesOf(s) ==
  CASE s = "S1" -> <<"D1", "D2">>
    [] s = "S2" -> <<"D3">>

Databases == {"D1", "D2", "D3"}

\* cursor.tables(tableType='TABLE') of a database, in catalog order.
TablesOf(d) ==
  CASE d = "D1" -> <<"T1", "T2", "T3">>
    [] d = "D2" -> <<"S0", "U1">>
    [] d = "D3" -> <<"V1">>

TableIds == {"T1", "T2", "T3", "S0", "U1", "V1"}

\* Catalog metadata of a table: its schema, the rows of
\* INFORMATION_SCHEMA.KEY_COLUMN_USAGE (constraint name, constraint type,
\* column, ordinal position) and of INFORMATION_SCHEMA.COLUMNS (name -> type).
TableMeta(t) ==
  CASE t = "T1" -> [schema |-> "dbo",
                    kcu |-> {[cname |-> <<"P","K","_","T","1">>, ctype |-> "PRIMARY KEY", col |-> "k", ord |-> 1]},
                    cols |-> [k |-> "int", n |-> "datetime"]]
    [] t = "T2" -> [schema |-> "dbo", kcu |-> {},
                    cols |-> [k |-> "varchar", n |-> "varchar"]]
    [] t = "T3" -> [schema |-> "dbo", kcu |-> {},
                    cols |-> [k |-> "datetime2", n |-> "varchar"]]
    [] t = "S0" -> [schema |-> "SYS", kcu |-> {},
                    cols |-> [k |-> "int", n |-> "varchar"]]
    [] t = "U1" -> [schema |-> "dbo", kcu |-> {},
                    cols |-> [k |-> "uniqueidentifier", n |-> "varchar"]]
    [] t = "V1" -> [schema |-> "dbo",
                    kcu |-> {[cname |-> <<"P","K","_","_","V">>, ctype |-> "PRIMARY KEY", col |-> "k", ord |-> 1]},
                    cols |-> [k |-> "int", n |-> "varchar"]]

\* ------------------------------------------------------- pure: conversions
DigitChars == <<"0", "1", "2", "3", "4", "5", "6", "7", "8", "9">>

DigitOf(c) == (CHOOSE i \in 1..10 : DigitChars[i] = c) - 1

RECURSIVE DecStr(_)
\* str(pk_value) for a non-negative integer: its decimal numeral.
DecStr(v) ==
  IF v < 10 THEN <<DigitChars[v + 1]>>
  ELSE Append(DecStr(v \div 10), DigitChars[(v % 10) + 1])

RECURSIVE ParseInt(_)
\* The value a decimal numeral converts to (SQL Server's implicit conversion
\* of the string parameter to the column's type; pandas.read_csv of a field).
ParseInt(s) ==
  IF Len(s) = 0 THEN 0
  ELSE 10 * ParseInt(SubSeq(s, 1, Len(s) - 1)) + DigitOf(s[Len(s)])

\* No cursor row for a target (get_last_synced_pk returns None).
NoCursor == <<>>

\* A uniqueidentifier value is modelled by a number below 100 that stands for
\* two byte groups: the text of the value shows the high group first, and
\* SQL Server's comparison of uniqueidentifier values looks at the last
\* group first.
GuidStr(v) == <<DigitChars[(v \div Len(DigitChars)) + 1], DigitChars[(v % Len(DigitChars)) + 1]>>

GuidRank(v) == (v % Len(DigitChars)) * Len(DigitChars) + (v \div Len(DigitChars))

\* str(value) as Python gives it for a value of a column of type ctype.
PyStr(ctype, v) == IF ctype = "uniqueidentifier" THEN GuidStr(v) ELSE DecStr(v)

\* The value a text converts to when the database compares it with a column
\* of type ctype, or when pandas parses a CSV field.
FromText(ctype, s) == ParseInt(s)

\* The position of a value in the order SQL Server's comparison operators
\* use for the column type.
SqlRank(ctype, v) == IF ctype = "uniqueidentifier" THEN GuidRank(v) ELSE v

RECURSIVE TextLess(_, _)
\* Python's order of two strings of digits.
TextLess(x, y) ==
  IF Len(x) = 0 THEN Len(y) > 0
  ELSE IF Len(y) = 0 THEN FALSE
  ELSE IF DigitOf(x[1]) # DigitOf(y[1]) THEN DigitOf(x[1]) < DigitOf(y[1])
  ELSE TextLess(Tail(x), Tail(y))

\* A mutant of the predicate below: the column value is compared with the
\* parameter as text.
SqlGreaterMutLexi(ctype, v, param) == TextLess(param, PyStr(ctype, v))

\* The predicate [sync_column] > ? on a column of type ctype, with the stored
\* string as parameter.
SqlGreater(ctype, v, param) ==
  SqlRank(ctype, v) > SqlRank(ctype, FromText(ctype, param))

\* df.to_csv followed by pd.read_csv of one row: every field is written as
\* text and parsed back.
CsvField(ctype, v) == FromText(ctype, PyStr(ctype, v))

CsvRow(meta, r) == [k |-> CsvField(meta.cols.k, r.k), n |-> CsvField(meta.cols.n, r.n)]

\* ------------------------------------------------------------ pure: bags
\* The bag B restricted to the elements in S.
BagRestrict(B, S) == [e \in S \cap DOMAIN B |-> B[e]]

\* df[sync_column].max() of a non-empty frame: pandas compares the values as
\* Python does, a uniqueidentifier as the string the driver returns.
PyLeq(ctype, a, b) ==
  IF ctype = "uniqueidentifier" THEN ~TextLess(GuidStr(b), GuidStr(a)) ELSE a <= b

MaxOf(B, col, ctype) ==
  CHOOSE m \in {r[col] : r \in DOMAIN B} : \A r \in DOMAIN B : PyLeq(ctype, r[col], m)

\* ------------------------------------------------- pure: strategy selector
\* ORDER BY COLUMN_NAME: the collation order of the column names in use.
ColumnOrder == <<"a", "b", "k", "n">>

ColumnRank(c) == CHOOSE i \in 1..Len(ColumnOrder) : ColumnOrder[i] = c

FirstByName(S) == CHOOSE c \in S : \A d \in S : ColumnRank(c) <= ColumnRank(d)

\* CONSTRAINT_NAME LIKE 'PK_%': 'P', 'K', one arbitrary character, then
\* anything ('_' is the single-character wildcard of LIKE).
LikePK(cname) == Len(cname) >= 3 /\ cname[1] = "P" /\ cname[2] = "K"

TimestampTypes == {"datetime", "datetime2", "smalldatetime", "timestamp"}

UniqueIdTypes == {"uniqueidentifier", "int", "bigint"}

ColumnsOfType(meta, types) == {c \in DOMAIN meta.cols : meta.cols[c] \in types}

\* get_primary_key_info: the columns of the constraints whose name is LIKE
\* 'PK_%', by ordinal position; [] when the probe raises.  Only the first
\* one is used by the caller: <<>> or <<first column>>.
get_primary_key_info(meta, raises) ==
  LET hits == {r \in meta.kcu : LikePK(r.cname)}
  IN  IF raises \/ hits = {} THEN <<>>
      ELSE <<(CHOOSE r \in hits : \A q \in hits : r.ord <= q.ord).col>>

\* get_timestamp_column: the first column, by name, of a datetime type;
\* None (here "") when there is none or the probe raises.
get_timestamp_column(meta, raises) ==
  IF raises \/ ColumnsOfType(meta, TimestampTypes) = {} THEN ""
  ELSE FirstByName(ColumnsOfType(meta, TimestampTypes))

get_unique_identifier_column(meta, raises) ==
  IF raises \/ ColumnsOfType(meta, UniqueIdTypes) = {} THEN ""
  ELSE FirstByName(ColumnsOfType(meta, UniqueIdTypes))

\* The if/elif chain of incremental_sync_database that picks the sync column.
\* fail.pk, fail.ts, fail.id tell which metadata probes raise.
SelectStrategy(meta, fail) ==
  LET pk == get_primary_key_info(meta, fail.pk)
      ts == get_timestamp_column(meta, fail.ts)
      id == get_unique_identifier_column(meta, fail.id)
  IN  IF pk # <<>> THEN [sync_type |-> "primary_key", sync_column |-> pk[1]]
      ELSE IF ts # "" THEN [sync_type |-> "timestamp", sync_column |-> ts]
      ELSE IF id # "" THEN [sync_type |-> "unique_id", sync_column |-> id]
      ELSE [sync_type |-> "smart_sync", sync_column |-> ""]

NoProbeFails == [pk |-> FALSE, ts |-> FALSE, id |-> FALSE]

\* The family of values a column type holds.
TypeFamily(ctype) ==
  IF ctype \in {"int", "bigint"} THEN "integer"
  ELSE IF ctype = "uniqueidentifier" THEN "guid"
  ELSE IF ctype \in TimestampTypes \cup {"date"} THEN "datetime"
  ELSE "text"

\* Whether SQL Server converts the stored cursor text, written by str() from
\* a value of a column of type from, for the comparison [sync_column] > ?
\* with a column of type to.  The text of a date/time or of a GUID does not
\* convert to an integer, nor the text of an integer or of a date/time to a
\* GUID, nor the text of a GUID to a date/time; the other conversions depend
\* on the value and are taken to succeed.
CursorConverts(from, to) ==
  LET a == TypeFamily(from)
      b == TypeFamily(to)
  IN  IF a = b THEN TRUE
      ELSE IF b = "integer" THEN a \notin {"datetime", "guid"}
      ELSE IF b = "guid" THEN a \notin {"integer", "datetime"}
      ELSE IF b = "datetime" THEN a # "guid"
      ELSE TRUE

\* The turn of a table in incremental_sync_database up to its first query,
\* for a table whose cursor row, if it has one (synced), was written by a turn
\* in which no probe raised: "smart" when no column is found, "failed" when
\* check_for_new_rows raises on the conversion of the cursor and the except
\* block counts the table as failed, "read" otherwise.
TableTurn(meta, fail, synced) ==
  LET then == SelectStrategy(meta, NoProbeFails)
      now == SelectStrategy(meta, fail)
  IN  IF now.sync_type = "smart_sync" THEN "smart"
      ELSE IF synced /\ then.sync_type # "smart_sync"
              /\ ~CursorConverts(meta.cols[then.sync_column], meta.cols[now.sync_column])
      THEN "failed"
      ELSE "read"

\* should_skip_table: the denylist holds only names of schema 'sys', so the
\* test reduces to the schema name, compared case-insensitively.
LowerOf(s) == IF s \in {"sys", "SYS", "Sys"} THEN "sys" ELSE s

\* A mutant of should_skip_table: the schema name is compared as written.
should_skip_tableMutCase(schema) == schema = "sys"

should_skip_table(schema) == LowerOf(schema) = "sys"

\* -------------------------------------------------------- pure: smart sync
\* The value fillna('') puts in place of a missing field.
NullVal == 0

\* Python's hash of a small integer: the integer itself, except hash(-1) = -2.
PyHash(v) == IF v = -1 THEN -2 ELSE v

\* hash(tuple(x)) of a row restricted to the common columns.  Both frames use
\* the same column list, so the tuple hash is modelled as the tuple of the
\* element hashes (collisions come from the element hashes only).
RowHash(r, common) == [c \in common |-> PyHash(r[c])]

\* A destination table that does not exist.
NoTable == [exists |-> FALSE, cols |-> {}, rows |-> EmptyBag]

\* A row of a frame as stored in a table with columns cols: the columns the
\* frame lacks are NULL.
Widen(r, cols) == [c \in cols |-> IF c \in DOMAIN r THEN r[c] ELSE NullVal]

\* DataFrame.to_sql(if_exists='append'): creates the table when it is absent;
\* raises when the frame has a column the table lacks.
ToSqlAppendRaises(tab, frame) == tab.exists /\ ~(frame.cols \subseteq tab.cols)

ToSqlAppend(tab, frame) ==
  IF ~tab.exists THEN [exists |-> TRUE, cols |-> frame.cols, rows |-> frame.rows]
  ELSE [tab EXCEPT !.rows = @ (+) BagOfAll(LAMBDA r : Widen(r, tab.cols), frame.rows)]

\* A mutant of the replacing load: it appends.
ToSqlReplaceMutAppend(tab, frame) ==
  IF ~tab.exists THEN [exists |-> TRUE, cols |-> frame.cols, rows |-> frame.rows]
  ELSE [tab EXCEPT !.rows = @ (+) frame.rows]

\* DataFrame.to_sql(if_exists='replace'): drops the table and recreates it.
ToSqlReplace(tab, frame) == [exists |-> TRUE, cols |-> frame.cols, rows |-> frame.rows]

\* The rows of source_df whose hash is not among the hashes of existing_df.
NewRowsMutNoHash(tab, frame) ==
  LET common == (frame.cols \ {"row_hash"}) \cap (tab.cols \ {"row_hash"})
      seen == {[c \in common |-> r[c]] : r \in DOMAIN tab.rows}
  IN  BagRestrict(frame.rows, {r \in DOMAIN frame.rows : [c \in common |-> r[c]] \notin seen})

NewRows(tab, frame) ==
  LET common == (frame.cols \ {"row_hash"}) \cap (tab.cols \ {"row_hash"})
      seen == {RowHash(r, common) : r \in DOMAIN tab.rows}
  IN  BagRestrict(frame.rows, {r \in DOMAIN frame.rows : RowHash(r, common) \notin seen})

\* smart_sync_table_without_pk(engine, schema, table_name, source_df) on the
\* destination table tab.  readRaises: the SELECT of the existing rows raises
\* although the table exists; cmpRaises: the comparison raises.  The result
\* is the table afterwards, the returned count, and whether the call raised.
SmartSync(tab, frame, readRaises, cmpRaises) ==
  LET all == [tab |-> ToSqlAppend(tab, frame), ret |-> BagCardinality(frame.rows),
              raised |-> FALSE]
      fallback == IF ToSqlAppendRaises(tab, frame)
                  THEN [tab |-> tab, ret |-> 0, raised |-> TRUE]
                  ELSE all
      common == (frame.cols \ {"row_hash"}) \cap (tab.cols \ {"row_hash"})
      fresh == NewRows(tab, frame)
      part == [cols |-> frame.cols, rows |-> fresh]
  IN  IF ~tab.exists \/ readRaises THEN fallback
      ELSE IF BagCardinality(tab.rows) = 0 THEN fallback
      ELSE IF cmpRaises THEN fallback
      ELSE IF common = {} THEN [tab |-> tab, ret |-> 0, raised |-> FALSE]
      ELSE IF BagCardinality(fresh) = 0 THEN [tab |-> tab, ret |-> 0, raised |-> FALSE]
      ELSE IF ToSqlAppendRaises(tab, part) THEN fallback
      ELSE [tab |-> ToSqlAppend(tab, part), ret |-> BagCardinality(fresh),
            raised |-> FALSE]

\* ------------------------------------------------------------------ state
VARIABLES
  src,          \* source tables: table id -> bag of rows
  dest,         \* destination tables: table id -> [exists, cols, rows]
  cursorStore,  \* sync_table_status.last_pk_value: table id -> string, <<>> if no row
  dbStatus,     \* sync_database_status: database -> [exists, last_full_sync, last_incremental_sync, sync_status]
  metrics,      \* rows written by the monitor: migration_metrics <<table, sync_type, status>>,
                \* data_consistency_checks <<table, "CONSISTENCY", status>>
  alerts,       \* alerts rows written by the monitor: <<alert_type, severity, table>>
  runLog,       \* migration_runs.status of the latest run of the run logger
  pc,           \* where the process is; "idle" when no process runs
  pos,          \* loop positions: [si, di, ti] into Servers, DatabasesOf, TablesOf
  loc,          \* locals of the table being synced: [mode, df, last_pk, max_pk, source_count]
  cnt,          \* counters: [db, srv, tot] and the summary last returned by a server pass
  exit,         \* how main() ended: "none", "running", "returned", "raised", "killed"
  clock,        \* number of runs started (datetime.now() in the status rows)
  faults,       \* collaborator calls that raised and process kills so far
  inserts,      \* source rows inserted so far
  hist,         \* history, per table: [out, cause, clean, before]
  fnArg,        \* argument of the pure function under check
  fnRes         \* its result

vars == <<src, dest, cursorStore, dbStatus, metrics, alerts, runLog, pc, pos, loc,
          cnt, exit, clock, faults, inserts, hist, fnArg, fnRes>>

persistent == <<src, dest, cursorStore, dbStatus, metrics, alerts, runLog>>

DataCols == {"k", "n"}

Frame(rows) == [cols |-> DataCols, rows |-> rows]

ZeroDb == [processed |-> 0, successful |-> 0, failed |-> 0, rows |-> 0]

ZeroSrv == [total_tables |-> 0, successful_syncs |-> 0, failed_syncs |-> 0,
            skipped_tables |-> 0, rows_processed |-> 0, rows_inserted |-> 0,
            full_sync_count |-> 0, incremental_sync_count |-> 0]

ZeroTot == [databases |-> 0, tables |-> 0, rows_processed |-> 0, rows_inserted |-> 0,
            successful_syncs |-> 0, failed_syncs |-> 0]

\* What a server pass returns: "none" before any, "dict" with the counts.
NoSummary == [kind |-> "none", databases |-> 0, tables |-> 0, successful_syncs |-> 0,
              failed_syncs |-> 0, rows_processed |-> 0, rows_inserted |-> 0]

ZeroCnt == [db |-> ZeroDb, srv |-> ZeroSrv, tot |-> ZeroTot, summary |-> NoSummary]

NoLoc == [mode |-> "", df |-> EmptyBag, last_pk |-> NoCursor, max_pk |-> 0,
          source_count |-> 0]

NoPos == [si |-> 0, di |-> 0, ti |-> 0]

NoStatus == [exists |-> FALSE, last_full_sync |-> 0, last_incremental_sync |-> 0,
             sync_status |-> "", created_at |-> 0, updated_at |-> 0]

\* out: how the table's turn ended in this run; cause: the step that raised;
\* clean: the table's last incremental turn ended without an exception and no
\* row was inserted into it since; before: the cursor the turn started from.
FreshHist == [t \in TableIds |-> [out |-> "pending", cause |-> "", clean |-> FALSE,
                                  before |-> NoCursor, read |-> FALSE]]

NoFn == [kind |-> "none"]

CurServer == Servers[pos.si]

CurDb == DatabasesOf(CurServer)[pos.di]

CurTable == TablesOf(CurDb)[pos.ti]

BaseRow == [k |-> FirstKey, n |-> 1]

\* ------------------------------------------------------------------- init
\* The column an incremental sync of table t orders by, and its type.
SyncColumn(t) == SelectStrategy(TableMeta(t), NoProbeFails).sync_column

SyncType(t) == TableMeta(t).cols[SyncColumn(t)]

CursorTables == {t \in TableIds \ {"S0"} :
                   SelectStrategy(TableMeta(t), NoProbeFails).sync_type # "smart_sync"}

LoadedBase(t) == [exists |-> TRUE, cols |-> DataCols,
                  rows |-> SetToBag({CsvRow(TableMeta(t), BaseRow)})]

\* The states a deployment is in between two runs: never synced ("fresh"),
\* after the full sync of every database ("known"), and after the first
\* incremental pass that seeded the cursors ("cursored").
InitWorld(scenario) ==
  /\ src = [t \in TableIds |-> SetToBag({BaseRow})]
  /\ dest = [t \in TableIds |->
               IF scenario = "fresh" \/ t = "S0" THEN NoTable ELSE LoadedBase(t)]
  /\ cursorStore = [t \in TableIds |->
               IF scenario = "cursored" /\ t \in CursorTables
               THEN PyStr(SyncType(t), FirstKey) ELSE NoCursor]
  /\ dbStatus = [d \in Databases |->
               IF scenario = "fresh" THEN NoStatus
               ELSE [exists |-> TRUE, last_full_sync |-> 0,
                     last_incremental_sync |-> 0, sync_status |-> "COMPLETED",
                     created_at |-> 0, updated_at |-> 0]]
  /\ metrics = {}
  /\ alerts = {}
  /\ runLog = "NONE"

InitProcess ==
  /\ pc = "idle"
  /\ pos = NoPos
  /\ loc = NoLoc
  /\ cnt = ZeroCnt
  /\ exit = "none"
  /\ clock = 0
  /\ faults = 0
  /\ inserts = 0
  /\ hist = FreshHist

Init ==
  /\ \E scenario \in {"fresh", "known", "cursored"} : InitWorld(scenario)
  /\ InitProcess
  /\ fnArg = NoFn
  /\ fnRes = NoFn

\* ---------------------------------------------------------------- helpers
\* Whether one more collaborator call may raise.
CanFault == faults < MaxFaults

TableStart(mode) == IF mode = "full" THEN "f_read" ELSE "i_read"

MoreTables == pos.ti < Len(TablesOf(CurDb))

MoreDatabases == pos.di < Len(DatabasesOf(CurServer))

MoreServers == pos.si < Len(Servers)

\* A mutant of NextTable: the loop attempts the same table again.
NextTableMutRetry ==
  /\ pc' = TableStart(loc.mode)
  /\ pos' = pos
  /\ loc' = [NoLoc EXCEPT !.mode = loc.mode]

\* The for loop over the tables goes on to the next table, or ends.
NextTable ==
  /\ pc' = IF MoreTables THEN TableStart(loc.mode) ELSE "db_end"
  /\ pos' = IF MoreTables THEN [pos EXCEPT !.ti = @ + 1] ELSE pos
  /\ loc' = [NoLoc EXCEPT !.mode = loc.mode]

Mark(t, out, cause, clean) ==
  hist' = [hist EXCEPT ![t] = [out |-> out, cause |-> cause, clean |-> clean,
                               before |-> @.before, read |-> @.read]]

Raised == faults' = faults + 1

Calm == faults' = faults

\* successful_syncs += 1 etc. at the end of a table's try block.
CountSuccess(n) ==
  cnt' = [cnt EXCEPT !.db = [processed |-> @.processed + 1,
                             successful |-> @.successful + 1,
                             failed |-> @.failed,
                             rows |-> @.rows + n]]

CountFailure == cnt' = [cnt EXCEPT !.db.failed = @ + 1]

\* target_count / source_count * 100 as an exact fraction num / den
\* (0 when the source is empty).
ConsistencyPercentage(source_count, target_count) ==
  IF source_count > 0 THEN [num |-> target_count * 100, den |-> source_count]
  ELSE [num |-> 0, den |-> 1]

\* p < n for a fraction p and an integer n.
PctBelow(p, n) == p.num < n * p.den

\* The values check_data_consistency derives from the two counts.
ConsistencyRecordMutSwap(source_count, target_count) ==
  [source_count |-> source_count,
   target_count |-> target_count,
   missing_rows |-> IF target_count - source_count > 0 THEN target_count - source_count ELSE 0,
   extra_rows |-> IF source_count - target_count > 0 THEN source_count - target_count ELSE 0,
   consistency_percentage |-> ConsistencyPercentage(source_count, target_count),
   status |-> IF source_count = target_count THEN "CONSISTENT" ELSE "INCONSISTENT"]

ConsistencyRecord(source_count, target_count) ==
  [source_count |-> source_count,
   target_count |-> target_count,
   missing_rows |-> IF source_count - target_count > 0 THEN source_count - target_count ELSE 0,
   extra_rows |-> IF target_count - source_count > 0 THEN target_count - source_count ELSE 0,
   consistency_percentage |-> ConsistencyPercentage(source_count, target_count),
   status |-> IF source_count = target_count THEN "CONSISTENT" ELSE "INCONSISTENT"]

\* consistency_percentage is stored in a DECIMAL(5,2) column: a value that
\* rounds to 1000.00 or more makes the INSERT raise.
DecimalOverflows(p) == p.num * 1000 >= 999995 * p.den

\* severity of the DATA_CONSISTENCY alert: HIGH below 95 percent.
ConsistencySeverity(source_count, target_count) ==
  IF PctBelow(ConsistencyPercentage(source_count, target_count), 95) THEN "HIGH" ELSE "MEDIUM"

\* check_data_consistency as a whole: the record, whether its INSERT
\* raised, and the severities of the alerts logged after the INSERT.
check_data_consistency(source_count, target_count) ==
  LET rec == ConsistencyRecord(source_count, target_count)
      raised == DecimalOverflows(rec.consistency_percentage)
  IN [record |-> rec,
      raised |-> raised,
      alerts |-> IF raised \/ rec.status = "CONSISTENT" THEN {}
                 ELSE {ConsistencySeverity(source_count, target_count)}]

\* The alert check_data_consistency adds, if any.
ConsistencyAlerts(t, source_count, target_count) ==
  {<<"DATA_CONSISTENCY", sev, t>> : sev \in check_data_consistency(source_count, target_count).alerts}

\* ---------------------------------------------------------- main(), start
\* main() up to its try block: start_migration_run, log_system_health and
\* log_server_event are called outside every try.
StartRun ==
  /\ pc = "idle"
  /\ clock < MaxRuns
  /\ clock' = clock + 1
  /\ cnt' = ZeroCnt
  /\ loc' = NoLoc
  /\ \/ /\ Calm
        /\ pc' = "server_begin"
        /\ pos' = [si |-> 1, di |-> 0, ti |-> 0]
        /\ runLog' = "RUNNING"
        /\ exit' = "running"
     \/ /\ CanFault /\ Raised
        /\ pc' = "done"
        /\ pos' = NoPos
        /\ runLog' = runLog
        /\ exit' = "raised"
  /\ UNCHANGED <<src, dest, cursorStore, dbStatus, metrics, alerts, inserts, hist,
                 fnArg, fnRes>>

\* for server_name, server_conf in sqlservers.items(): log_server_event.
ServerBegin ==
  /\ pc = "server_begin"
  /\ \/ /\ Calm
        /\ pc' = "srv_setup"
     \/ /\ CanFault /\ Raised
        /\ pc' = "main_except"
  /\ UNCHANGED <<persistent, pos, loc, cnt, exit, clock, inserts, hist, fnArg, fnRes>>

\* process_sql_server_hybrid up to the loop over the databases: engine,
\* tracking tables, master connection, get_all_databases.  With no database
\* the function returns None and main's summary.get raises AttributeError.
SrvSetup ==
  /\ pc = "srv_setup"
  /\ \/ /\ Calm
        /\ IF DatabasesOf(CurServer) = <<>>
           THEN /\ pc' = "main_except"
                /\ pos' = pos
                /\ cnt' = cnt
           ELSE /\ pc' = "db_begin"
                /\ pos' = [pos EXCEPT !.di = 1, !.ti = 0]
                /\ cnt' = [cnt EXCEPT !.srv = ZeroSrv]
     \/ /\ CanFault /\ Raised
        /\ pc' = "srv_except"
        /\ pos' = pos
        /\ cnt' = cnt
  /\ UNCHANGED <<persistent, loc, exit, clock, inserts, hist, fnArg, fnRes>>

\* A mutant of the choice below: full sync unless an incremental sync is on
\* record.
SyncModeMutByField(d) == IF dbStatus[d].last_incremental_sync # 0 THEN "incr" ELSE "full"

\* sync_status = get_sync_status(...); if sync_status is None: full sync,
\* else incremental sync.
SyncMode(d) == IF dbStatus[d].exists THEN "incr" ELSE "full"

\* One turn of the loop over the databases, up to the loop over the tables:
\* get_sync_status decides between full and incremental, then the database
\* connection is opened and the tables are listed.
DbBegin ==
  /\ pc = "db_begin"
  /\ \/ /\ Calm
        /\ LET mode == SyncMode(CurDb)
           IN  /\ loc' = [NoLoc EXCEPT !.mode = mode]
               /\ IF TablesOf(CurDb) = <<>>
                  THEN pc' = "db_end" /\ pos' = pos
                  ELSE pc' = TableStart(mode) /\ pos' = [pos EXCEPT !.ti = 1]
        /\ cnt' = [cnt EXCEPT !.db = ZeroDb]
     \/ /\ CanFault /\ Raised
        /\ pc' = "srv_except"
        /\ UNCHANGED <<pos, loc, cnt>>
  /\ UNCHANGED <<persistent, exit, clock, inserts, hist, fnArg, fnRes>>

\* ------------------------------------------------------ full_sync_database
\* should_skip_table, get_table_row_count, SELECT *, to_csv.
FRead ==
  /\ pc = "f_read"
  /\ LET t == CurTable
     IN  \/ /\ should_skip_table(TableMeta(t).schema)
            /\ Calm
            /\ NextTable
            /\ Mark(t, "skipped", "", hist[t].clean)
         \/ /\ ~should_skip_table(TableMeta(t).schema)
            /\ Calm
            /\ pc' = "f_load"
            /\ pos' = pos
            /\ loc' = [loc EXCEPT !.df = src[t],
                                  !.source_count = BagCardinality(src[t])]
            /\ hist' = [hist EXCEPT ![t].read = TRUE]
         \/ /\ ~should_skip_table(TableMeta(t).schema)
            /\ CanFault /\ Raised
            /\ pc' = "f_fail"
            /\ pos' = pos
            /\ loc' = loc
            /\ Mark(t, "pending", "read", FALSE)
  /\ UNCHANGED <<persistent, cnt, exit, clock, inserts, fnArg, fnRes>>

\* load_csv_to_postgres(..., if_exists='replace') of the exported file.
FLoad ==
  /\ pc = "f_load"
  /\ LET t == CurTable
         frame == Frame(BagOfAll(LAMBDA r : CsvRow(TableMeta(t), r), loc.df))
     IN  \/ /\ Calm
            /\ dest' = [dest EXCEPT ![t] = ToSqlReplace(@, frame)]
            /\ pc' = "f_record"
            /\ hist' = hist
         \/ /\ CanFault /\ Raised
            /\ dest' = dest
            /\ pc' = "f_fail"
            /\ Mark(t, "pending", "load", FALSE)
  /\ UNCHANGED <<src, cursorStore, dbStatus, metrics, alerts, runLog, pos, loc, cnt,
                 exit, clock, inserts, fnArg, fnRes>>

\* get_postgres_row_count, monitor.log_sync_metric(SUCCESS),
\* monitor.check_data_consistency, then the success counters.
FRecord ==
  /\ pc = "f_record"
  /\ LET t == CurTable
         target_count == BagCardinality(dest[t].rows)
     IN  \/ /\ Calm
            /\ metrics' = metrics \cup
                 {<<t, "FULL", "SUCCESS">>,
                  <<t, "CONSISTENCY",
                    check_data_consistency(loc.source_count, target_count).record.status>>}
            /\ alerts' = alerts \cup ConsistencyAlerts(t, loc.source_count, target_count)
            /\ CountSuccess(BagCardinality(loc.df))
            /\ NextTable
            /\ Mark(t, "succeeded", "", FALSE)
         \/ /\ CanFault /\ Raised
            /\ \E cause \in {"count", "metric", "consistency"} :
                 /\ metrics' = IF cause = "consistency"
                               THEN metrics \cup {<<t, "FULL", "SUCCESS">>} ELSE metrics
                 /\ Mark(t, "pending", cause, FALSE)
            /\ alerts' = alerts
            /\ pc' = "f_fail"
            /\ UNCHANGED <<pos, loc, cnt>>
  /\ UNCHANGED <<src, dest, cursorStore, dbStatus, runLog, exit, clock, inserts,
                 fnArg, fnRes>>

\* The except block of a table in full_sync_database:
\* monitor.log_sync_metric(FAILED), monitor.log_alert, failed_syncs += 1.
\* Neither call is guarded: when one raises, the exception leaves
\* full_sync_database and reaches the except block of the server pass.
FFail ==
  /\ pc = "f_fail"
  /\ LET t == CurTable
     IN  \/ /\ Calm
            /\ metrics' = metrics \cup {<<t, "FULL", "FAILED">>}
            /\ alerts' = alerts \cup {<<"SYNC_FAILURE", "HIGH", t>>}
            /\ CountFailure
            /\ NextTable
            /\ Mark(t, "failed", hist[t].cause, FALSE)
         \/ /\ CanFault /\ Raised
            /\ \E second \in BOOLEAN :
                 metrics' = IF second THEN metrics \cup {<<t, "FULL", "FAILED">>} ELSE metrics
            /\ alerts' = alerts
            /\ pc' = "srv_except"
            /\ Mark(t, "escaped", hist[t].cause, FALSE)
            /\ UNCHANGED <<pos, loc, cnt>>
  /\ UNCHANGED <<src, dest, cursorStore, dbStatus, runLog, exit, clock, inserts,
                 fnArg, fnRes>>

\* ----------------------------------------------- incremental_sync_database
\* The end of a table's turn that raised: failed_syncs += 1, next table.
TableFailed(t, cause) ==
  /\ CanFault /\ Raised
  /\ CountFailure
  /\ NextTable
  /\ Mark(t, "failed", cause, FALSE)

\* The end of a table's turn that found nothing to load: continue.  selected
\* tells whether the SELECT of the rows ran.
TableNothing(t, selected) ==
  /\ Calm
  /\ cnt' = cnt
  /\ NextTable
  /\ hist' = [hist EXCEPT ![t] = [out |-> "nothing", cause |-> "", clean |-> TRUE,
                                  before |-> @.before, read |-> selected]]

\* SELECT * FROM t WHERE [col] > ? with the stored cursor as parameter, on
\* the rows B of the table.
RowsAfterIn(B, ctype, col, last_pk) ==
  BagRestrict(B, {r \in DOMAIN B : SqlGreater(ctype, r[col], last_pk)})

RowsAfter(t, col, last_pk) == RowsAfterIn(src[t], TableMeta(t).cols[col], col, last_pk)

check_for_new_rowsMutAlways(t, col, last_pk) == TRUE

\* check_for_new_rows: SELECT COUNT(*) ... WHERE [col] > ? is positive.
check_for_new_rows(t, col, last_pk) ==
  IF last_pk = NoCursor THEN TRUE ELSE BagCardinality(RowsAfter(t, col, last_pk)) > 0

\* should_skip_table, the row count, the three metadata probes, the choice of
\* the sync column, get_last_synced_pk, check_for_new_rows and the SELECT.
IRead ==
  /\ pc = "i_read"
  /\ LET t == CurTable
         strat == SelectStrategy(TableMeta(t), NoProbeFails)
         col == strat.sync_column
         last_pk == cursorStore[t]
         smart == strat.sync_type = "smart_sync"
         df == IF smart THEN src[t]
               ELSE IF last_pk = NoCursor THEN src[t]
               ELSE RowsAfter(t, col, last_pk)
         selected == IF smart THEN TRUE ELSE check_for_new_rows(t, col, last_pk)
         found == IF selected THEN BagCardinality(df) > 0 ELSE FALSE
     IN  \/ /\ should_skip_table(TableMeta(t).schema)
            /\ Calm
            /\ cnt' = cnt
            /\ NextTable
            /\ Mark(t, "skipped", "", hist[t].clean)
         \/ /\ ~should_skip_table(TableMeta(t).schema)
            /\ ~found
            /\ TableNothing(t, selected)
         \/ /\ ~should_skip_table(TableMeta(t).schema)
            /\ found
            /\ Calm
            /\ pc' = IF smart THEN "i_smart" ELSE "i_cursor"
            /\ pos' = pos
            /\ loc' = [loc EXCEPT !.df = df, !.last_pk = last_pk,
                                  !.max_pk = IF smart THEN 0
                                             ELSE MaxOf(df, col, TableMeta(t).cols[col]),
                                  !.source_count = BagCardinality(src[t])]
            /\ cnt' = cnt
            /\ hist' = [hist EXCEPT ![t].before = last_pk, ![t].read = TRUE]
         \/ /\ ~should_skip_table(TableMeta(t).schema)
            /\ TableFailed(t, "read")
  /\ UNCHANGED <<persistent, exit, clock, inserts, fnArg, fnRes>>

\* update_last_synced_pk(..., max_pk): the upsert of str(max_pk).  It comes
\* before the load in the code.
update_last_synced_pk(t, pk_value) ==
  cursorStore' = [cursorStore EXCEPT ![t] = PyStr(SyncType(t), pk_value)]

ICursor ==
  /\ pc = "i_cursor"
  /\ LET t == CurTable
     IN  \/ /\ Calm
            /\ update_last_synced_pk(t, loc.max_pk)
            /\ pc' = "i_load"
            /\ UNCHANGED <<pos, loc, cnt, hist>>
         \/ /\ TableFailed(t, "cursor")
            /\ cursorStore' = cursorStore
  /\ UNCHANGED <<src, dest, dbStatus, metrics, alerts, runLog, exit, clock, inserts,
                 fnArg, fnRes>>

\* load_csv_to_postgres: replace when the table had no cursor, append otherwise.
ILoad ==
  /\ pc = "i_load"
  /\ LET t == CurTable
         frame == Frame(BagOfAll(LAMBDA r : CsvRow(TableMeta(t), r), loc.df))
     IN  \/ /\ Calm
            /\ dest' = [dest EXCEPT ![t] = IF loc.last_pk = NoCursor
                                           THEN ToSqlReplace(@, frame)
                                           ELSE ToSqlAppend(@, frame)]
            /\ pc' = "i_validate"
            /\ UNCHANGED <<pos, loc, cnt, hist>>
         \/ /\ TableFailed(t, "load")
            /\ dest' = dest
  /\ UNCHANGED <<src, cursorStore, dbStatus, metrics, alerts, runLog, exit, clock,
                 inserts, fnArg, fnRes>>

\* get_postgres_row_count and validate_row_count, then the success counters.
IValidate ==
  /\ pc = "i_validate"
  /\ LET t == CurTable
     IN  \/ /\ Calm
            /\ CountSuccess(BagCardinality(loc.df))
            /\ NextTable
            /\ Mark(t, "succeeded", "", TRUE)
         \/ TableFailed(t, "count")
  /\ UNCHANGED <<persistent, exit, clock, inserts, fnArg, fnRes>>

\* The smart-sync branch: smart_sync_table_without_pk on the frame read, then
\* the success counters (rows counted: len(df), not the rows inserted).
ISmart ==
  /\ pc = "i_smart"
  /\ LET t == CurTable
     IN  \E readRaises, cmpRaises \in BOOLEAN :
           LET r == SmartSync(dest[t], Frame(loc.df), readRaises, cmpRaises)
           IN  /\ ~(readRaises /\ cmpRaises)
               /\ IF readRaises \/ cmpRaises THEN CanFault /\ Raised ELSE Calm
               /\ ~r.raised
               /\ dest' = [dest EXCEPT ![t] = r.tab]
               /\ CountSuccess(BagCardinality(loc.df))
               /\ NextTable
               /\ Mark(t, "succeeded", IF cmpRaises THEN "compare"
                                       ELSE IF readRaises THEN "exists" ELSE "",
                       ~(readRaises \/ cmpRaises))
  /\ UNCHANGED <<src, cursorStore, dbStatus, metrics, alerts, runLog, exit, clock,
                 inserts, fnArg, fnRes>>

\* The to_sql of smart sync raises and so does the fallback's: the exception
\* reaches the table's except block.
ISmartFail ==
  /\ pc = "i_smart"
  /\ TableFailed(CurTable, "load")
  /\ UNCHANGED <<persistent, exit, clock, inserts, fnArg, fnRes>>

\* The INSERT ... ON CONFLICT (server_name, database_name) DO UPDATE of
\* update_sync_status on the rows of sync_database_status: a new row gets
\* the timestamp of its kind, the status and the column defaults; an
\* existing row gets that timestamp, sync_status and updated_at.  A NULL
\* timestamp is 0.
UpsertStatusMutBoth(table, d, sync_type, sync_status, now) ==
  [table EXCEPT ![d] =
     [exists |-> TRUE, last_full_sync |-> now, last_incremental_sync |-> now,
      sync_status |-> sync_status,
      created_at |-> IF @.exists THEN @.created_at ELSE now, updated_at |-> now]]

UpsertStatus(table, d, sync_type, sync_status, now) ==
  [table EXCEPT ![d] =
     IF ~@.exists
     THEN [exists |-> TRUE,
           last_full_sync |-> IF sync_type = "full" THEN now ELSE 0,
           last_incremental_sync |-> IF sync_type = "full" THEN 0 ELSE now,
           sync_status |-> sync_status, created_at |-> now, updated_at |-> now]
     ELSE IF sync_type = "full"
     THEN [@ EXCEPT !.last_full_sync = now, !.sync_status = sync_status,
                    !.updated_at = now]
     ELSE [@ EXCEPT !.last_incremental_sync = now, !.sync_status = sync_status,
                    !.updated_at = now]]

\* ------------------------------------------ process_sql_server_hybrid, end
\* A mutant of update_sync_status: the status row is written only when no
\* table of the database failed.
\* update_sync_status(engine, server, database, sync_type, 'COMPLETED'): the
\* upsert sets the timestamp of its kind, sync_status and updated_at.
update_sync_statusMutOnlyClean(d, sync_type) ==
  dbStatus' = IF cnt.db.failed = 0
              THEN UpsertStatus(dbStatus, d, sync_type, "COMPLETED", clock)
              ELSE dbStatus

update_sync_status(d, sync_type) ==
  dbStatus' = UpsertStatus(dbStatus, d, sync_type, "COMPLETED", clock)

\* After full_sync_database / incremental_sync_database returned: close,
\* update_sync_status, and the session counters.
DbEnd ==
  /\ pc = "db_end"
  /\ \/ /\ Calm
        /\ update_sync_status(CurDb, loc.mode)
        /\ cnt' = [cnt EXCEPT !.srv =
             [total_tables |-> @.total_tables + cnt.db.processed,
              successful_syncs |-> @.successful_syncs + cnt.db.successful,
              failed_syncs |-> @.failed_syncs + cnt.db.failed,
              skipped_tables |-> @.skipped_tables,
              rows_processed |-> @.rows_processed + cnt.db.rows,
              rows_inserted |-> @.rows_inserted + cnt.db.rows,
              full_sync_count |-> @.full_sync_count + (IF loc.mode = "full" THEN 1 ELSE 0),
              incremental_sync_count |->
                  @.incremental_sync_count + (IF loc.mode = "full" THEN 0 ELSE 1)]]
        /\ pc' = IF MoreDatabases THEN "db_begin" ELSE "srv_summary"
        /\ pos' = IF MoreDatabases THEN [pos EXCEPT !.di = @ + 1, !.ti = 0] ELSE pos
        /\ loc' = NoLoc
     \/ /\ CanFault /\ Raised
        /\ pc' = "srv_except"
        /\ UNCHANGED <<dbStatus, cnt, pos, loc>>
  /\ UNCHANGED <<src, dest, cursorStore, metrics, alerts, runLog, exit, clock, inserts,
                 hist, fnArg, fnRes>>

\* main() adds the summary of a server pass to its totals and goes on to the
\* next server.
Aggregate(summary) ==
  /\ cnt' = [cnt EXCEPT !.summary = summary,
                        !.tot = [databases |-> @.databases + summary.databases,
                                 tables |-> @.tables + summary.tables,
                                 rows_processed |-> @.rows_processed + summary.rows_processed,
                                 rows_inserted |-> @.rows_inserted + summary.rows_inserted,
                                 successful_syncs |-> @.successful_syncs + summary.successful_syncs,
                                 failed_syncs |-> @.failed_syncs + summary.failed_syncs]]
  /\ pc' = IF MoreServers THEN "server_begin" ELSE "main_end"
  /\ pos' = IF MoreServers THEN [si |-> pos.si + 1, di |-> 0, ti |-> 0] ELSE pos

\* overall_status, monitor.log_sync_summary, the SESSION_FAILURES alert and
\* the returned summary.
SrvSummary ==
  /\ pc = "srv_summary"
  /\ \/ /\ Calm
        /\ alerts' = IF cnt.srv.failed_syncs > 0
                     THEN alerts \cup {<<"SESSION_FAILURES",
                                         IF cnt.srv.successful_syncs > 0 THEN "MEDIUM" ELSE "HIGH",
                                         "">>}
                     ELSE alerts
        /\ Aggregate([kind |-> "dict",
                      databases |-> Len(DatabasesOf(CurServer)),
                      tables |-> cnt.srv.total_tables,
                      successful_syncs |-> cnt.srv.successful_syncs,
                      failed_syncs |-> cnt.srv.failed_syncs,
                      rows_processed |-> cnt.srv.rows_processed,
                      rows_inserted |-> cnt.srv.rows_inserted])
     \/ /\ CanFault /\ Raised
        /\ pc' = "srv_except"
        /\ UNCHANGED <<alerts, cnt, pos>>
  /\ UNCHANGED <<src, dest, cursorStore, dbStatus, metrics, runLog, loc, exit, clock,
                 inserts, hist, fnArg, fnRes>>

\* The summary a server pass returns from its except block.
FailureSummary == [kind |-> "dict", databases |-> 0, tables |-> 0, successful_syncs |-> 0,
                   failed_syncs |-> 1, rows_processed |-> 0, rows_inserted |-> 0]

\* The except block of process_sql_server_hybrid: monitor.log_sync_summary,
\* monitor.log_alert (severity 'HIGH') and the failure summary.  Neither call
\* is guarded: when one raises, the exception reaches main's except block.
SrvExcept ==
  /\ pc = "srv_except"
  /\ \/ /\ Calm
        /\ alerts' = alerts \cup {<<"SESSION_FAILURE", "HIGH", "">>}
        /\ Aggregate(FailureSummary)
     \/ /\ CanFault /\ Raised
        /\ pc' = "main_except"
        /\ UNCHANGED <<alerts, cnt, pos>>
  /\ UNCHANGED <<src, dest, cursorStore, dbStatus, metrics, runLog, loc, exit, clock,
                 inserts, hist, fnArg, fnRes>>

\* ------------------------------------------------------------ main(), end
\* end_migration_run(run_id, 'COMPLETED', summary) and log_server_event.
MainEnd ==
  /\ pc = "main_end"
  /\ \/ /\ Calm
        /\ runLog' = "COMPLETED"
        /\ pc' = "done"
        /\ exit' = "returned"
     \/ /\ CanFault /\ Raised
        /\ runLog' = runLog
        /\ pc' = "main_except"
        /\ exit' = exit
  /\ UNCHANGED <<src, dest, cursorStore, dbStatus, metrics, alerts, pos, loc, cnt,
                 clock, inserts, hist, fnArg, fnRes>>

\* The except block of main(): comprehensive_logger.log_alert and
\* end_migration_run(run_id, 'FAILED', ...), both unguarded.
MainExcept ==
  /\ pc = "main_except"
  /\ pc' = "done"
  /\ \/ /\ Calm
        /\ runLog' = "FAILED"
        /\ exit' = "returned"
     \/ /\ CanFault /\ Raised
        /\ runLog' = runLog
        /\ exit' = "raised"
  /\ UNCHANGED <<src, dest, cursorStore, dbStatus, metrics, alerts, pos, loc, cnt,
                 clock, inserts, hist, fnArg, fnRes>>

\* ------------------------------------------------------------ environment
TableSteps == {"f_read", "f_load", "f_record", "f_fail",
               "i_read", "i_cursor", "i_load", "i_validate", "i_smart"}

\* The process is stopped between two steps (a kill, a power cut).
Kill ==
  /\ pc \notin {"idle", "done"}
  /\ CanFault /\ Raised
  /\ pc' = "done"
  /\ exit' = "killed"
  /\ hist' = IF pc \in TableSteps
             THEN [hist EXCEPT ![CurTable] = [out |-> "killed", cause |-> pc,
                                              clean |-> FALSE, before |-> @.before,
                                              read |-> @.read]]
             ELSE hist
  /\ UNCHANGED <<persistent, pos, loc, cnt, clock, inserts, fnArg, fnRes>>

\* The process is gone; nothing of it is left but what it persisted.
Reap ==
  /\ pc = "done"
  /\ pc' = "idle"
  /\ pos' = NoPos
  /\ loc' = NoLoc
  /\ cnt' = ZeroCnt
  /\ exit' = "none"
  /\ hist' = [t \in TableIds |-> [out |-> "pending", cause |-> "",
                                   clean |-> hist[t].clean, before |-> NoCursor,
                                   read |-> FALSE]]
  /\ UNCHANGED <<persistent, clock, faults, inserts, fnArg, fnRes>>

\* The tables the application writes to.
InsertTables == {"T1", "T2", "T3", "U1"}

HasPrimaryKey(t) == \E r \in TableMeta(t).kcu : r.ctype = "PRIMARY KEY"

\* The application inserts a row into a source table between two runs.
Insert ==
  /\ pc = "idle"
  /\ inserts < MaxInserts
  /\ \E t \in InsertTables, r \in Rows :
       /\ HasPrimaryKey(t) => \A q \in DOMAIN src[t] : q.k # r.k
       /\ src' = [src EXCEPT ![t] = @ (+) SetToBag({r})]
       /\ hist' = [hist EXCEPT ![t].clean = FALSE]
  /\ inserts' = inserts + 1
  /\ UNCHANGED <<dest, cursorStore, dbStatus, metrics, alerts, runLog, pc, pos, loc,
                 cnt, exit, clock, faults, fnArg, fnRes>>

Next ==
  \/ StartRun \/ ServerBegin \/ SrvSetup \/ DbBegin
  \/ FRead \/ FLoad \/ FRecord \/ FFail
  \/ IRead \/ ICursor \/ ILoad \/ IValidate \/ ISmart \/ ISmartFail
  \/ DbEnd \/ SrvSummary \/ SrvExcept \/ MainEnd \/ MainExcept
  \/ Kill \/ Reap \/ Insert

Spec == Init /\ [][Next]_vars

\* ================================================= the selector on its own
\* The variables of the sync process, which the pure functions leave alone.
processVars == <<src, dest, cursorStore, dbStatus, metrics, alerts, runLog, pc, pos,
                 loc, cnt, exit, clock, faults, inserts, hist>>

NoProcess == InitWorld("fresh") /\ InitProcess

\* Constraint names, as sequences of characters.
NamePK_T == <<"P", "K", "_", "T">>
NameT_PK == <<"T", "_", "P", "K">>
NamePKG_FK == <<"P", "K", "G", "_", "F", "K">>

\* What INFORMATION_SCHEMA.KEY_COLUMN_USAGE may hold for a table with columns
\* k and n: nothing; a primary key on k named by SQL Server's default pattern;
\* a primary key on k with a name of the user's own; a primary key on (n, k);
\* no primary key but a foreign key whose name starts with PK.
KcuChoices ==
  { {},
    {[cname |-> NamePK_T, ctype |-> "PRIMARY KEY", col |-> "k", ord |-> 1]},
    {[cname |-> NameT_PK, ctype |-> "PRIMARY KEY", col |-> "k", ord |-> 1]},
    {[cname |-> NamePK_T, ctype |-> "PRIMARY KEY", col |-> "n", ord |-> 1],
     [cname |-> NamePK_T, ctype |-> "PRIMARY KEY", col |-> "k", ord |-> 2]},
    {[cname |-> NamePKG_FK, ctype |-> "FOREIGN KEY", col |-> "n", ord |-> 1]} }

\* DATA_TYPE values of the columns.
ColTypeChoices == {"int", "bigint", "uniqueidentifier", "varchar", "datetime", "date"}

MetaChoices ==
  {[schema |-> "dbo", kcu |-> kc, cols |-> [k |-> tk, n |-> tn]] :
      kc \in KcuChoices, tk \in ColTypeChoices, tn \in ColTypeChoices}

FailChoices == [pk : BOOLEAN, ts : BOOLEAN, id : BOOLEAN]

InitSelect ==
  /\ NoProcess
  /\ fnArg \in {[kind |-> "select", meta |-> m, fail |-> f, synced |-> sy] :
                   m \in MetaChoices, f \in FailChoices, sy \in BOOLEAN}
  /\ fnRes = NoFn

\* The three probes and the if/elif chain, applied to the table drawn.
ApplySelect ==
  /\ fnArg.kind = "select"
  /\ fnRes = NoFn
  /\ fnRes' = [kind |-> "select", strat |-> SelectStrategy(fnArg.meta, fnArg.fail),
               turn |-> TableTurn(fnArg.meta, fnArg.fail, fnArg.synced)]
  /\ UNCHANGED <<processVars, fnArg>>

NextSelect == ApplySelect

SpecSelect == InitSelect /\ [][NextSelect]_vars

\* =============================================== smart sync on its own
\* Field values: two integers whose Python hashes collide, and two more.
SmartVals == {-2, -1, 1, 2}

\* The rows over a set of columns: k varies, n is fixed.
RowsOver(cols) == {[c \in cols |-> IF c = "k" THEN v ELSE 1] : v \in SmartVals}

\* The bags of at least lo and at most hi elements of S.
BagsOver(S, lo, hi) ==
  {b \in UNION {[D -> 1..hi] : D \in SUBSET S} :
      BagCardinality(b) >= lo /\ BagCardinality(b) <= hi}

\* The frames read from the source: never empty (the caller's len(df) > 0).
FrameChoices ==
  UNION {{[cols |-> cs, rows |-> b] : b \in BagsOver(RowsOver(cs), 1, MaxSmartRows)} :
            cs \in {{"k"}, {"k", "n"}}}

\* The destination table before the first run: absent, or with some columns
\* and rows.
TabChoices ==
  {NoTable} \cup
  UNION {{[exists |-> TRUE, cols |-> cs, rows |-> b] :
             b \in BagsOver(RowsOver(cs), 0, MaxDestRows)} :
            cs \in {{"k"}, {"k", "n"}, {"n"}}}

InitSmart ==
  /\ NoProcess
  /\ fnArg \in {[kind |-> "smart", tab |-> tb, frame |-> fr] :
                   tb \in TabChoices, fr \in FrameChoices}
  /\ fnRes = NoFn

\* The destination table as the last run left it.
SmartTab == IF fnRes = NoFn THEN fnArg.tab ELSE fnRes.tab

SmartRuns == IF fnRes = NoFn THEN 0 ELSE fnRes.runs

\* One more run of smart_sync_table_without_pk with the same source frame.
\* The result keeps the table before the run (prev), the table after the
\* first run (first) and whether a statement of the run raised (faulty).
SmartRun(readRaises, cmpRaises) ==
  /\ fnArg.kind = "smart"
  /\ SmartRuns < MaxSmartRuns
  /\ LET r == SmartSync(SmartTab, fnArg.frame, readRaises, cmpRaises)
     IN  fnRes' = [kind |-> "smart", tab |-> r.tab, ret |-> r.ret, raised |-> r.raised,
                   runs |-> SmartRuns + 1, prev |-> SmartTab,
                   first |-> IF SmartRuns = 0 THEN r.tab ELSE fnRes.first,
                   faulty |-> readRaises \/ cmpRaises]
  /\ UNCHANGED <<processVars, fnArg>>

SmartRunCalm == SmartRun(FALSE, FALSE)

\* The SELECT of the existing rows raises although the table exists.
SmartRunReadRaises == SmartTab.exists /\ SmartRun(TRUE, FALSE)

\* The comparison raises.
SmartRunCompareRaises ==
  /\ SmartTab.exists
  /\ BagCardinality(SmartTab.rows) > 0
  /\ SmartRun(FALSE, TRUE)

NextSmart == SmartRunCalm \/ SmartRunReadRaises \/ SmartRunCompareRaises

SpecSmart == InitSmart /\ [][NextSmart]_vars

\* ===================================== check_data_consistency on its own
InitConsistency ==
  /\ NoProcess
  /\ fnArg \in {[kind |-> "consistency", source_count |-> sc, target_count |-> tc] :
                   sc \in 0..MaxCount, tc \in 0..MaxCount}
  /\ fnRes = NoFn

\* check_data_consistency applied to the pair of counts drawn.
ApplyConsistency ==
  /\ fnArg.kind = "consistency"
  /\ fnRes = NoFn
  /\ LET r == check_data_consistency(fnArg.source_count, fnArg.target_count)
     IN  fnRes' = [kind |-> "consistency", record |-> r.record,
                   raised |-> r.raised, alerts |-> r.alerts]
  /\ UNCHANGED <<processVars, fnArg>>

NextConsistency == ApplyConsistency

SpecConsistency == InitConsistency /\ [][NextConsistency]_vars

\* ============================================== overall_status on its own
\* The conditional expression that sets overall_status in
\* process_sql_server_hybrid.
overall_statusMutFailedFirst(successful_syncs, failed_syncs) ==
  IF successful_syncs = 0 THEN "FAILED"
  ELSE IF failed_syncs = 0 THEN "SUCCESS"
  ELSE "PARTIAL"

overall_status(successful_syncs, failed_syncs) ==
  IF failed_syncs = 0 THEN "SUCCESS"
  ELSE IF successful_syncs > 0 THEN "PARTIAL"
  ELSE "FAILED"

InitStatus ==
  /\ NoProcess
  /\ fnArg \in {[kind |-> "status", successful_syncs |-> ok, failed_syncs |-> ko] :
                   ok \in 0..MaxSyncs, ko \in 0..MaxSyncs}
  /\ fnRes = NoFn

ApplyStatus ==
  /\ fnArg.kind = "status"
  /\ fnRes = NoFn
  /\ fnRes' = [kind |-> "status",
               overall_status |-> overall_status(fnArg.successful_syncs, fnArg.failed_syncs)]
  /\ UNCHANGED <<processVars, fnArg>>

NextStatus == ApplyStatus

SpecStatus == InitStatus /\ [][NextStatus]_vars

\* =========================================== update_sync_status on its own
StatusKeys == {"D1", "D2"}
Stamps == 0..MaxStamp
StatusTexts == {"COMPLETED", "RUNNING"}

\* The rows sync_database_status may hold for a database.
StatusRowChoices ==
  {NoStatus} \cup
  {[exists |-> TRUE, last_full_sync |-> f, last_incremental_sync |-> i,
    sync_status |-> st, created_at |-> 0, updated_at |-> IF f > i THEN f ELSE i] :
      f \in Stamps, i \in Stamps, st \in StatusTexts}

InitUpsert ==
  /\ NoProcess
  /\ fnArg \in {[kind |-> "upsert", table |-> tb, d |-> d, sync_type |-> ty,
                 sync_status |-> st, now |-> MaxStamp + 1] :
                   tb \in [StatusKeys -> StatusRowChoices], d \in StatusKeys,
                   ty \in {"full", "incr"}, st \in StatusTexts}
  /\ fnRes = NoFn

ApplyUpsert ==
  /\ fnArg.kind = "upsert"
  /\ fnRes = NoFn
  /\ fnRes' = [kind |-> "upsert",
               table |-> UpsertStatus(fnArg.table, fnArg.d, fnArg.sync_type,
                                      fnArg.sync_status, fnArg.now)]
  /\ UNCHANGED <<processVars, fnArg>>

NextUpsert == ApplyUpsert

SpecUpsert == InitUpsert /\ [][NextUpsert]_vars

\* ======================================== update_last_synced_pk on its own
\* Targets with an integer and with a uniqueidentifier cursor column.
CursorTargets == {"T1", "U1"}

\* The rows of sync_table_status of one target.
RowsOfTarget(rows, target) == {r \in DOMAIN rows : r.target = target}

\* The INSERT ... ON CONFLICT (server_name, database_name, schema_name,
\* table_name) DO UPDATE SET last_pk_value on the rows of sync_table_status:
\* a target without a row gets one, a row of the target gets the new text.
UpsertCursorMutInsert(rows, target, text) ==
  rows (+) SetToBag({[target |-> target, last_pk_value |-> text]})

UpsertCursor(rows, target, text) ==
  LET hit == RowsOfTarget(rows, target)
      row == [target |-> target, last_pk_value |-> text]
  IN  IF hit = {} THEN rows (+) SetToBag({row})
      ELSE BagRestrict(rows, DOMAIN rows \ hit)
             (+) [r \in {row} |-> BagCardinality(BagRestrict(rows, hit))]

\* The tables the primary key of sync_table_status allows: at most one row
\* for a target.
CursorRowChoices ==
  {SetToBag({[target |-> t, last_pk_value |-> PyStr(SyncType(t), f[t])] : t \in D}) :
      f \in [CursorTargets -> Keys], D \in SUBSET CursorTargets}

InitCursor ==
  /\ NoProcess
  /\ fnArg \in {[kind |-> "cursor", rows |-> rs, target |-> t, pk_value |-> v] :
                   rs \in CursorRowChoices, t \in CursorTargets, v \in Keys}
  /\ fnRes = NoFn

CursorRows == IF fnRes = NoFn THEN fnArg.rows ELSE fnRes.rows

CursorRuns == IF fnRes = NoFn THEN 0 ELSE fnRes.runs

\* One more call of update_last_synced_pk with the same target and value.
ApplyCursor ==
  /\ fnArg.kind = "cursor"
  /\ CursorRuns < MaxUpserts
  /\ LET after == UpsertCursor(CursorRows, fnArg.target,
                               PyStr(SyncType(fnArg.target), fnArg.pk_value))
     IN  fnRes' = [kind |-> "cursor", rows |-> after, runs |-> CursorRuns + 1,
                   first |-> IF CursorRuns = 0 THEN after ELSE fnRes.first]
  /\ UNCHANGED <<processVars, fnArg>>

NextCursor == ApplyCursor

SpecCursor == InitCursor /\ [][NextCursor]_vars

\* ================================= the turn of a cursor table on its own
\* The turn of table t in incremental_sync_database when no statement
\* raises, on the source rows B, the destination table tab and the stored
\* cursor last_pk: the existence probe, the SELECT, the cursor upsert and
\* the load.
IncrementalTurn(t, B, tab, last_pk) ==
  LET col == SyncColumn(t)
      ctype == SyncType(t)
      beyond == RowsAfterIn(B, ctype, col, last_pk)
      selected == IF last_pk = NoCursor THEN TRUE ELSE BagCardinality(beyond) > 0
      df == IF last_pk = NoCursor THEN B ELSE beyond
      frame == Frame(BagOfAll(LAMBDA r : CsvRow(TableMeta(t), r), df))
  IN  IF selected /\ BagCardinality(df) > 0
      THEN [out |-> "succeeded", read |-> TRUE, df |-> df,
            cursor |-> PyStr(ctype, MaxOf(df, col, ctype)),
            tab |-> IF last_pk = NoCursor THEN ToSqlReplace(tab, frame)
                    ELSE ToSqlAppend(tab, frame)]
      ELSE [out |-> "nothing", read |-> selected, df |-> EmptyBag,
            cursor |-> last_pk, tab |-> tab]

\* The destination tables a turn may find: none, or one that holds the rows
\* of some source keys.
TurnTabChoices(t) ==
  {NoTable} \cup
  {[exists |-> TRUE, cols |-> DataCols,
    rows |-> SetToBag({CsvRow(TableMeta(t), [k |-> v, n |-> 1]) : v \in ks})] :
      ks \in SUBSET Keys}

InitTurn ==
  /\ NoProcess
  /\ fnArg \in UNION {{[kind |-> "turn", t |-> t, tab |-> tb, last_pk |-> c,
                         rows |-> SetToBag({[k |-> v, n |-> 1] : v \in ks})] :
                           tb \in TurnTabChoices(t), ks \in SUBSET Keys,
                           c \in {NoCursor} \cup {PyStr(SyncType(t), v) : v \in Keys}} :
                        t \in CursorTargets}
  /\ fnRes = NoFn

ApplyTurn ==
  /\ fnArg.kind = "turn"
  /\ fnRes = NoFn
  /\ fnRes' = [kind |-> "turn",
               turn |-> IncrementalTurn(fnArg.t, fnArg.rows, fnArg.tab, fnArg.last_pk)]
  /\ UNCHANGED <<processVars, fnArg>>

NextTurn == ApplyTurn

SpecTurn == InitTurn /\ [][NextTurn]_vars

\* ============================== two overlapping runs on the same table
\* Two processes take the incremental turn of the same table at the same
\* time.  fnRes holds the source rows, the destination table, the cursor
\* row and, for each process, where it is (at) and its locals.
IdleRun == [at |-> "start", last_pk |-> NoCursor, df |-> EmptyBag, existing |-> NoTable]

InitOverlap ==
  /\ NoProcess
  /\ fnArg \in UNION {{[kind |-> "overlap", t |-> t, tab |-> tb, last_pk |-> c,
                         rows |-> SetToBag({[k |-> v, n |-> 1] : v \in ks})] :
                           tb \in TurnTabChoices(t), ks \in SUBSET Keys,
                           c \in {NoCursor} \cup
                                 (IF t \in CursorTables
                                  THEN {PyStr(SyncType(t), v) : v \in Keys} ELSE {})} :
                        t \in {"T1", "T2"}}
  /\ fnRes = [kind |-> "overlap", tab |-> fnArg.tab, cursor |-> fnArg.last_pk,
              rows |-> fnArg.rows,
              run |-> [i \in {1, 2} |-> IdleRun]]

\* One statement of process i in the turn of a table with a sync column:
\* get_last_synced_pk; check_for_new_rows and the SELECT; the cursor upsert;
\* the load.
CursorRunStep(i) ==
  /\ fnArg.kind = "overlap"
  /\ fnArg.t \in CursorTables
  /\ LET t == fnArg.t
         me == fnRes.run[i]
         beyond == RowsAfterIn(fnRes.rows, SyncType(t), SyncColumn(t), me.last_pk)
         df == IF me.last_pk = NoCursor THEN fnRes.rows ELSE beyond
         frame == Frame(BagOfAll(LAMBDA r : CsvRow(TableMeta(t), r), me.df))
     IN  CASE me.at = "start" ->
                fnRes' = [fnRes EXCEPT !.run[i].at = "select",
                                       !.run[i].last_pk = fnRes.cursor]
           [] me.at = "select" ->
                fnRes' = [fnRes EXCEPT !.run[i].at = IF BagCardinality(df) > 0
                                                     THEN "cursor" ELSE "done",
                                       !.run[i].df = df]
           [] me.at = "cursor" ->
                fnRes' = [fnRes EXCEPT !.run[i].at = "load",
                                       !.cursor = PyStr(SyncType(t),
                                                        MaxOf(me.df, SyncColumn(t), SyncType(t)))]
           [] me.at = "load" ->
                fnRes' = [fnRes EXCEPT !.run[i].at = "done",
                                       !.tab = IF me.last_pk = NoCursor
                                               THEN ToSqlReplace(@, frame)
                                               ELSE ToSqlAppend(@, frame)]
           [] OTHER -> FALSE
  /\ UNCHANGED <<processVars, fnArg>>

\* One statement of process i in the turn of a table without a sync column:
\* the SELECT; the read of the existing destination rows; the append of the
\* rows whose hash was not among them.
SmartRunStep(i) ==
  /\ fnArg.kind = "overlap"
  /\ fnArg.t \notin CursorTables
  /\ LET me == fnRes.run[i]
         after == SmartSync(me.existing, Frame(me.df), FALSE, FALSE).tab
         added == [cols |-> DataCols, rows |-> after.rows (-) me.existing.rows]
     IN  CASE me.at = "start" ->
                fnRes' = [fnRes EXCEPT !.run[i].at = IF BagCardinality(fnRes.rows) > 0
                                                     THEN "existing" ELSE "done",
                                       !.run[i].df = fnRes.rows]
           [] me.at = "existing" ->
                fnRes' = [fnRes EXCEPT !.run[i].at = "append",
                                       !.run[i].existing = fnRes.tab]
           [] me.at = "append" ->
                fnRes' = [fnRes EXCEPT !.run[i].at = "done",
                                       !.tab = IF BagCardinality(added.rows) > 0
                                               THEN ToSqlAppend(@, added) ELSE @]
           [] OTHER -> FALSE
  /\ UNCHANGED <<processVars, fnArg>>

NextOverlap == \E i \in {1, 2} : CursorRunStep(i) \/ SmartRunStep(i)

SpecOverlap == InitOverlap /\ [][NextOverlap]_vars

\* The application inserts a row into the source table while the two
\* processes run: the key of a table with an identity primary key is greater
\* than every key in the table.
OverlapInsert ==
  /\ fnArg.kind = "overlap"
  /\ fnArg.t \in CursorTables
  /\ BagCardinality(fnRes.rows) - BagCardinality(fnArg.rows) < MaxInserts
  /\ \E v \in Keys :
       /\ \A r \in DOMAIN fnRes.rows : r.k < v
       /\ fnRes' = [fnRes EXCEPT !.rows = @ (+) SetToBag({[k |-> v, n |-> 1]})]
  /\ UNCHANGED <<processVars, fnArg>>

NextOverlapInsert == NextOverlap \/ OverlapInsert

SpecOverlapInsert == InitOverlap /\ [][NextOverlapInsert]_vars

\* ============================ two concurrent full syncs of the same table
\* Both processes export the table to the same file, {schema}_{table}.csv in
\* the same directory, and load it with if_exists='replace'.  The file is
\* the set of its slots written since it was last truncated: slot 0 is the
\* header line, slot j the j-th row.
KeyAt(ks, j) == CHOOSE v \in ks : Cardinality({u \in ks : u <= v}) = j

\* pd.read_csv of the file: it raises on an empty file and on a file with
\* a gap (a stretch of NUL bytes a writer skipped over); otherwise it returns
\* the rows written so far.
FileGaps(file) == {j \in 0..Cardinality(fnArg.ks) : j \notin file /\ \E h \in file : h > j}

ReadCsvRaises(file) == file = {} \/ FileGaps(file) # {}

ReadCsv(file) ==
  Frame(SetToBag({CsvRow(TableMeta(fnArg.t), [k |-> KeyAt(fnArg.ks, j), n |-> 1]) :
                    j \in file \ {0}}))

InitRace ==
  /\ NoProcess
  /\ fnArg \in {[kind |-> "race", t |-> "T1", ks |-> ks, tab |-> tb] :
                   ks \in SUBSET Keys, tb \in TurnTabChoices("T1")}
  /\ fnRes = [kind |-> "race", tab |-> fnArg.tab, file |-> {},
              run |-> [i \in {1, 2} |-> [at |-> "start", off |-> 0, frame |-> Frame(EmptyBag)]]]

\* One statement of process i in the turn of the table in full_sync_database:
\* pd.read_sql; df.to_csv opens the file, which truncates it; df.to_csv
\* writes the header and the rows, flushed one slot at a time at the
\* writer's own offset; pd.read_csv; to_sql(if_exists='replace').  An
\* exception ends the turn in the except block.
FullRunStep(i) ==
  /\ fnArg.kind = "race"
  /\ LET me == fnRes.run[i]
         last == Cardinality(fnArg.ks)
     IN  CASE me.at = "start" ->
                fnRes' = [fnRes EXCEPT !.run[i].at = "open"]
           [] me.at = "open" ->
                fnRes' = [fnRes EXCEPT !.run[i].at = "write", !.run[i].off = 0,
                                       !.file = {}]
           [] me.at = "write" ->
                fnRes' = [fnRes EXCEPT !.run[i].at = IF me.off = last THEN "read" ELSE "write",
                                       !.run[i].off = me.off + 1,
                                       !.file = @ \cup {me.off}]
           [] me.at = "read" ->
                fnRes' = IF ReadCsvRaises(fnRes.file)
                         THEN [fnRes EXCEPT !.run[i].at = "failed"]
                         ELSE [fnRes EXCEPT !.run[i].at = "load",
                                            !.run[i].frame = ReadCsv(fnRes.file)]
           [] me.at = "load" ->
                fnRes' = [fnRes EXCEPT !.run[i].at = "done",
                                       !.tab = ToSqlReplace(@, me.frame)]
           [] OTHER -> FALSE
  /\ UNCHANGED <<processVars, fnArg>>

NextRace == \E i \in {1, 2} : FullRunStep(i)

SpecRace == InitRace /\ [][NextRace]_vars

\* ================================================= the scope of a trigger
\* A database or table name the trigger was not given.
NoScope == "none"

\* The tables main walks over, in order: every server of
\* config['sqlservers'], every database of the server, every table of the
\* database.
Walk ==
  LET TablesIn(s, d) == [j \in 1..Len(TablesOf(d)) |-> <<s, d, TablesOf(d)[j]>>]
      RECURSIVE DbWalk(_, _)
      DbWalk(s, i) == IF i > Len(DatabasesOf(s)) THEN <<>>
                      ELSE TablesIn(s, DatabasesOf(s)[i]) \o DbWalk(s, i + 1)
      RECURSIVE SrvWalk(_)
      SrvWalk(i) == IF i > Len(Servers) THEN <<>>
                    ELSE DbWalk(Servers[i], 1) \o SrvWalk(i + 1)
  IN  SrvWalk(1)

\* The triggers: run_hybrid_sync(server_name, db_name, table_name) of the
\* management page and run_sync(server, database) of the scheduler.
InitTrigger ==
  /\ NoProcess
  /\ fnArg \in
       UNION {UNION {{[kind |-> "trigger", via |-> "run_hybrid_sync",
                       server |-> Servers[i], database |-> d, table |-> t] :
                        t \in IF d = NoScope THEN {NoScope}
                              ELSE {NoScope} \cup {TablesOf(d)[j] : j \in 1..Len(TablesOf(d))}} :
                     d \in {NoScope} \cup {DatabasesOf(Servers[i])[j] :
                                             j \in 1..Len(DatabasesOf(Servers[i]))}} :
              i \in 1..Len(Servers)}
       \cup
       UNION {{[kind |-> "trigger", via |-> "run_sync",
                server |-> Servers[i], database |-> DatabasesOf(Servers[i])[j],
                table |-> NoScope] : j \in 1..Len(DatabasesOf(Servers[i]))} :
              i \in 1..Len(Servers)}
  /\ fnRes = [kind |-> "trigger", at |-> 0, env |-> {}, touched |-> {}]

\* The trigger puts its arguments into the environment of a child process
\* that runs hybrid_sync.py: run_hybrid_sync sets SELECTED_SERVER and, when
\* given, SELECTED_DATABASE and SELECTED_TABLE; run_sync sets DB_NAME.
Trigger ==
  /\ fnArg.kind = "trigger"
  /\ fnRes.at = 0
  /\ fnRes' = [fnRes EXCEPT
       !.at = 1,
       !.env = IF fnArg.via = "run_hybrid_sync"
               THEN {<<"SELECTED_SERVER", fnArg.server>>}
                    \cup (IF fnArg.database # NoScope
                          THEN {<<"SELECTED_DATABASE", fnArg.database>>} ELSE {})
                    \cup (IF fnArg.table # NoScope
                          THEN {<<"SELECTED_TABLE", fnArg.table>>} ELSE {})
               ELSE {<<"DB_NAME", fnArg.database>>}]
  /\ UNCHANGED <<processVars, fnArg>>

\* main in the child process: it takes the servers from the configuration
\* file and reads no variable of the environment; every table that is not
\* skipped is read from its source and written in the destination.
MainStep ==
  /\ fnArg.kind = "trigger"
  /\ fnRes.at \in 1..Len(Walk)
  /\ LET w == Walk[fnRes.at]
     IN  fnRes' = [fnRes EXCEPT
           !.at = @ + 1,
           !.touched = IF should_skip_table(TableMeta(w[3]).schema) THEN @ ELSE @ \cup {w}]
  /\ UNCHANGED <<processVars, fnArg>>

NextTrigger == Trigger \/ MainStep

SpecTrigger == InitTrigger /\ [][NextTrigger]_vars

\* ================================================ pure: identifier names
\* Names are sequences of characters; a letter, the characters the code
\* treats apart, and a character that is neither.
Names == UNION {[1..n -> {"a", "_", "-", " ", "."}] : n \in 1..MaxNameLen}

\* The server, database, schema and table names the targets are drawn from.
TargetNames == {<<"a">>, <<"a", "_">>, <<"_", "a">>, <<"a", "-">>, <<"a", ".">>}

\* ''.join(c for c in name if c.isalnum() or c in '_-')
Sanitize(name) == SelectSeq(name, LAMBDA c : c \in {"a", "_", "-"})

\* f"{server_clean}_{db_name}".replace('-', '_').replace(' ', '_')
SchemaName(server, db_name) ==
  LET joined == Sanitize(server) \o <<"_">> \o db_name
  IN  [i \in DOMAIN joined |-> IF joined[i] \in {"-", " "} THEN "_" ELSE joined[i]]

\* The CSV file of a target: the directory {server_clean}_{db_name} and the
\* file {schema}_{table}.csv in it.
CsvPath(tg) ==
  [dir |-> Sanitize(tg.server) \o <<"_">> \o tg.db,
   file |-> tg.schema \o <<"_">> \o tg.table \o <<".", "c", "s", "v">>]

\* The destination table load_csv_to_postgres writes for a target: the
\* schema it is given and the file's base name, sanitized.
DestOf(tg) ==
  [schema |-> SchemaName(tg.server, tg.db),
   table |-> Sanitize(tg.schema \o <<"_">> \o tg.table)]

\* load_csv_to_postgres into an absent table, for a frame of one column
\* col: CREATE TABLE IF NOT EXISTS with the sanitized column name, then
\* to_sql with the frame's own column name: 'replace' drops the table and
\* creates it again from the frame; 'append' inserts into the created table
\* and raises when it has no column of the frame's name.
LoadColumns(col, if_exists) ==
  LET created == {Sanitize(col)}
  IN  [created |-> created,
       raised |-> if_exists = "append" /\ col \notin created,
       loaded |-> IF if_exists = "replace" THEN {col} ELSE created]

InitSanitize ==
  /\ NoProcess
  /\ fnArg \in {[kind |-> "columns", col |-> c, server |-> sv, db |-> d, if_exists |-> m] :
                   c \in Names, sv \in TargetNames, d \in TargetNames,
                   m \in {"replace", "append"}}
               \cup
               {[kind |-> "targets", a |-> a, b |-> b] :
                   a, b \in [server : TargetNames, db : TargetNames,
                             schema : {<<"a">>, <<"a", "_">>},
                             table : {<<"a">>, <<"_", "a">>, <<"a", ".">>}]}
  /\ fnRes = NoFn

ApplySanitize ==
  /\ fnArg.kind \in {"columns", "targets"}
  /\ fnRes = NoFn
  /\ fnRes' = IF fnArg.kind = "columns"
              THEN [kind |-> "columns",
                    schema |-> SchemaName(fnArg.server, fnArg.db),
                    load |-> LoadColumns(fnArg.col, fnArg.if_exists)]
              ELSE [kind |-> "targets",
                    dest |-> [a |-> DestOf(fnArg.a), b |-> DestOf(fnArg.b)],
                    path |-> [a |-> CsvPath(fnArg.a), b |-> CsvPath(fnArg.b)]]
  /\ UNCHANGED <<processVars, fnArg>>

NextSanitize == ApplySanitize

SpecSanitize == InitSanitize /\ [][NextSanitize]_vars

\* ===================================================== main over servers
\* What process_sql_server_hybrid returns for the servers of the
\* configuration, in order: None ("none") for a server without user
\* databases, the failure summary, or a summary with its counts.
InitMain ==
  /\ NoProcess
  /\ fnArg \in {[kind |-> "main", passes |-> ps] :
                  ps \in UNION {[1..n -> {NoSummary, FailureSummary,
                                          [FailureSummary EXCEPT !.databases = 1, !.tables = 2,
                                                                 !.successful_syncs = 1]}] :
                                n \in 1..MaxPasses}}
  /\ fnRes = [kind |-> "main", at |-> 1, tot |-> ZeroTot, run |-> "RUNNING"]

\* One turn of main's loop over the servers, or the end of the run:
\* summary.get(...) on each returned value, which raises AttributeError on
\* None; the exception leaves the loop for main's except block, which ends
\* the run as FAILED.
MainLoopStep ==
  /\ fnArg.kind = "main"
  /\ fnRes.run = "RUNNING"
  /\ LET summary == fnArg.passes[fnRes.at]
     IN  fnRes' =
           IF fnRes.at > Len(fnArg.passes) THEN [fnRes EXCEPT !.run = "COMPLETED"]
           ELSE IF summary.kind = "none" THEN [fnRes EXCEPT !.run = "FAILED"]
           ELSE [fnRes EXCEPT
                   !.at = @ + 1,
                   !.tot = [databases |-> @.databases + summary.databases,
                            tables |-> @.tables + summary.tables,
                            rows_processed |-> @.rows_processed + summary.rows_processed,
                            rows_inserted |-> @.rows_inserted + summary.rows_inserted,
                            successful_syncs |-> @.successful_syncs + summary.successful_syncs,
                            failed_syncs |-> @.failed_syncs + summary.failed_syncs]]
  /\ UNCHANGED <<processVars, fnArg>>

NextMain == MainLoopStep

SpecMain == InitMain /\ [][NextMain]_vars

\* ======================================================== the scheduler
\* The state after add_schedule for the jobs J1 and J2, each of type
\* interval or daily: schedules holds them, their stop flags are False and
\* their threads are at the test of the while loop.  For each job, runs
\* counts its run_sync calls and late tells whether one of them started
\* after delete_schedule had returned 'deleted' for the job.
InitSchedule ==
  /\ NoProcess
  /\ fnArg \in {[kind |-> "schedule", type |-> ty] :
                  ty \in [{"J1", "J2"} -> {"interval", "daily"}]}
  /\ fnRes = [kind |-> "schedule", schedules |-> {"J1", "J2"},
              stop_flags |-> [j \in {"J1", "J2"} |-> FALSE],
              response |-> "none",
              job |-> [j \in {"J1", "J2"} |-> [at |-> "while", runs |-> 0, late |-> FALSE]]]

\* One statement of job_loop of job j.  interval: while not stop_flags:
\* run_sync; sleep.  daily: while not stop_flags: sleep until the time of
\* day; if not stop_flags: run_sync.
JobLoopStep(j) ==
  /\ fnArg.kind = "schedule"
  /\ LET me == fnRes.job[j]
         stop == fnRes.stop_flags[j]
         interval == fnArg.type[j] = "interval"
         ran == [me EXCEPT !.runs = IF @ < MaxJobRuns THEN @ + 1 ELSE @,
                           !.late = @ \/ j \notin fnRes.schedules]
     IN  CASE me.at = "while" ->
                fnRes' = [fnRes EXCEPT !.job[j].at =
                            IF stop THEN "stopped" ELSE IF interval THEN "run_sync" ELSE "sleep"]
           [] me.at = "run_sync" ->
                fnRes' = [fnRes EXCEPT !.job[j] =
                            [ran EXCEPT !.at = IF interval THEN "sleep" ELSE "while"]]
           [] me.at = "sleep" ->
                fnRes' = [fnRes EXCEPT !.job[j].at = IF interval THEN "while" ELSE "if"]
           [] me.at = "if" ->
                fnRes' = [fnRes EXCEPT !.job[j].at = IF stop THEN "while" ELSE "run_sync"]
           [] OTHER -> FALSE
  /\ UNCHANGED <<processVars, fnArg>>

\* delete_schedule(job_id): a job in schedules gets its stop flag set and is
\* removed, the answer is 'deleted'; otherwise the answer is 'not found'.
DeleteSchedule(job_id) ==
  /\ fnArg.kind = "schedule"
  /\ fnRes' = IF job_id \in fnRes.schedules
              THEN [fnRes EXCEPT !.stop_flags[job_id] = TRUE,
                                 !.schedules = @ \ {job_id},
                                 !.response = "deleted"]
              ELSE [fnRes EXCEPT !.response = "not found"]
  /\ UNCHANGED <<processVars, fnArg>>

NextSchedule ==
  \/ \E j \in {"J1", "J2"} : JobLoopStep(j)
  \/ \E job_id \in {"J1", "J2", "J3"} : DeleteSchedule(job_id)

SpecSchedule == InitSchedule /\ [][NextSchedule]_vars

\* ================================================================= claims
\* The values of the sync column among the rows of the destination table.
LoadedValues(t) == {r[SyncColumn(t)] : r \in DOMAIN dest[t].rows}

\* The value of the sync column a stored cursor stands for.
CursorValue(t, text) == FromText(SyncType(t), text)

\* The position of a stored cursor in the order of its column.
CursorRank(t, text) == SqlRank(SyncType(t), CursorValue(t, text))

Quiescent == pc \in {"idle", "done"}

\* C1: whenever no run is in progress, the cursor stored for a table is a
\* value of the sync column of a row that has been loaded into the
\* destination table: the cursor is only ever advanced to a value of a batch
\* whose load succeeded.
C1_CursorOnlyFromLoadedBatch ==
  Quiescent =>
    \A t \in CursorTables :
      cursorStore[t] # NoCursor => CursorValue(t, cursorStore[t]) \in LoadedValues(t)

\* C2: when the incremental sync of a table is interrupted between the read
\* of its batch and the end of the load (the load raises, or the process is
\* stopped there), the stored cursor is the one the sync started from.
C2_InterruptedSyncKeepsCursor ==
  \A t \in CursorTables :
    (/\ hist[t].out \in {"failed", "killed"}
     /\ hist[t].cause \in {"cursor", "load", "i_cursor", "i_load"})
    => cursorStore[t] = hist[t].before

\* C3: once the incremental sync of a table with a cursor has ended without
\* an exception, and as long as no row is inserted into the source table, no
\* step of this or a later run changes the destination table or the cursor:
\* the second of two runs in a row inserts nothing and keeps the cursor.
C3_SecondRunInsertsNothing ==
  [][\A t \in CursorTables :
       (hist[t].clean /\ cursorStore[t] # NoCursor)
       => (dest'[t] = dest[t] /\ cursorStore'[t] = cursorStore[t])]_vars

\* C4: after a successful incremental sync of a table that had a cursor, the
\* stored cursor is greater than or equal to the one the sync started from.
C4_CursorMonotonic ==
  \A t \in CursorTables :
    (hist[t].out = "succeeded" /\ hist[t].before # NoCursor)
    => (/\ cursorStore[t] # NoCursor
        /\ CursorRank(t, cursorStore[t]) >= CursorRank(t, hist[t].before))

\* C4 witness: a successful incremental sync of T3 started from a cursor and
\* advanced it.
C4_Witness ==
  /\ hist["T3"].out = "succeeded"
  /\ hist["T3"].before # NoCursor
  /\ CursorRank("T3", cursorStore["T3"]) > CursorRank("T3", hist["T3"].before)

\* Whether the table declares a primary key, and the key's first column.
DeclaresPK(meta) == \E r \in meta.kcu : r.ctype = "PRIMARY KEY"

FirstPKColumn(meta) ==
  (CHOOSE r \in meta.kcu :
     /\ r.ctype = "PRIMARY KEY"
     /\ \A q \in meta.kcu : q.ctype = "PRIMARY KEY" => r.ord <= q.ord).col

\* The date/time family of SQL Server column types.
DateTimeFamily == {"date", "time", "datetime", "datetime2", "smalldatetime",
                   "datetimeoffset", "timestamp"}

\* C5: when no metadata probe raises, a table that declares a primary key
\* gets the primary-key strategy on the key's first column; otherwise a table
\* with a date/time column gets the timestamp strategy; otherwise a table with
\* a GUID, int or bigint column gets the unique-identifier strategy; otherwise
\* it gets smart sync.
C5_StrategyPrecedence ==
  (fnRes # NoFn /\ fnRes.kind = "select" /\ fnArg.fail = NoProbeFails) =>
    LET meta == fnArg.meta
        types == {meta.cols[c] : c \in DOMAIN meta.cols}
    IN  IF DeclaresPK(meta)
        THEN fnRes.strat = [sync_type |-> "primary_key",
                            sync_column |-> FirstPKColumn(meta)]
        ELSE IF types \cap DateTimeFamily # {}
        THEN fnRes.strat.sync_type = "timestamp"
        ELSE IF types \cap {"uniqueidentifier", "int", "bigint"} # {}
        THEN fnRes.strat.sync_type = "unique_id"
        ELSE fnRes.strat.sync_type = "smart_sync"

\* C6: re-running smart sync with the same source frame inserts no row: after
\* any number of runs the destination table holds what it held after the
\* first run, whatever happened inside the runs.
C6_SmartRerunInsertsNothing ==
  (fnRes # NoFn /\ fnRes.kind = "smart") => fnRes.tab.rows = fnRes.first.rows

\* The columns smart sync compares on.
CommonColumns(tab, frame) == frame.cols \cap tab.cols

\* The content hash of source row r over the common columns is the hash of no
\* row of the table.
HashAbsent(r, tab, frame) ==
  \A e \in DOMAIN tab.rows :
     \E c \in CommonColumns(tab, frame) : PyHash(r[c]) # PyHash(e[c])

\* The source rows, with their multiplicity, that the run had to append.
ToAppend(tab, frame) ==
  BagRestrict(frame.rows, {r \in DOMAIN frame.rows : HashAbsent(r, tab, frame)})

\* The last run met an existing, non-empty table and no statement of it raised.
SmartCompared ==
  /\ fnRes # NoFn
  /\ fnRes.kind = "smart"
  /\ fnRes.prev.exists
  /\ BagCardinality(fnRes.prev.rows) > 0
  /\ ~fnRes.faulty
  /\ ~fnRes.raised

RowA == [k |-> 1]
RowB == [k |-> 2]
RowC == [k |-> -1]

C8_TableFailureIsolated ==
  hist["T2"].cause = "read" =>
    /\ (pc = "done" /\ exit \in {"returned", "raised"}) => hist["T3"].out # "pending"
    /\ (/\ pc = "db_end"
        /\ CurDb = "D1"
        /\ hist["T1"].out = "succeeded"
        /\ hist["T3"].out = "succeeded")
       => (cnt.db.failed = 1 /\ cnt.db.successful >= 2)

\* C9: a failure of the metrics sink never changes the outcome of the table
\* being synced: a table whose load succeeded and whose metric or consistency
\* record could not be written is not counted as failed, and the pass goes on.
C9_SinkFailureHarmless ==
  \A t \in TableIds :
    hist[t].cause \in {"metric", "consistency"} => hist[t].out \notin {"failed", "escaped"}

\* C10: no exception propagates out of main(), whichever collaborator fails
\* at whichever step.
C10_MainNeverRaises == exit # "raised"

\* C11: an exception raised at the top level of a server pass is caught: the
\* step that handles it (the process is not stopped meanwhile) stores an
\* alert of severity CRITICAL and returns the summary with failed_syncs = 1
\* and every other count 0.
C11_PassFailureCriticalAlert ==
  [][(pc = "srv_except" /\ exit' # "killed")
     => (/\ \E a \in alerts' \ alerts : a[2] = "CRITICAL"
         /\ cnt'.summary = FailureSummary)]_vars

\* The tables of the system schema, whatever the case of its name.
SystemTables == {t \in TableIds : TableMeta(t).schema \in {"sys", "SYS", "Sys"}}

UserTablesOf(d) == {t \in TableIds : (\E i \in 1..Len(TablesOf(d)) : TablesOf(d)[i] = t)
                                      /\ t \notin SystemTables}

\* C12: a system table is never read nor loaded (its turn never gets past
\* the test at the head of the loop, it has no destination table and no
\* cursor), and the counts a pass over a database returns count the other
\* tables only; in full and in incremental sync.
C12_SystemTablesSkipped ==
  /\ \A t \in SystemTables :
       /\ dest[t] = NoTable
       /\ cursorStore[t] = NoCursor
       /\ hist[t].out \in {"pending", "skipped", "killed"}
       /\ \A x \in metrics : x[1] # t
       /\ (pc \in TableSteps /\ CurTable = t)
          => (pc \in {"f_read", "i_read"} /\ loc.df = EmptyBag)
  /\ pc = "db_end" =>
       /\ cnt.db.processed <= Cardinality(UserTablesOf(CurDb))
       /\ cnt.db.successful + cnt.db.failed <= Cardinality(UserTablesOf(CurDb))

\* C12 witness: the system table S0 was skipped by an incremental pass over
\* D2 after the full sync of the first run had skipped it too.
C12_Witness ==
  /\ hist["S0"].out = "skipped"
  /\ pc = "db_end"
  /\ loc.mode = "incr"
  /\ dbStatus["D2"].last_full_sync = 1
  /\ clock = 2
  /\ cnt.db.successful = 1

\* The tables of database d.
TableSetOf(d) == {TablesOf(d)[i] : i \in 1..Len(TablesOf(d))}

\* C13: when the pass over a database that had no status row ends, the
\* destination of each table synced successfully holds exactly the rows of
\* the source table, last_full_sync of the database is set to the time of the
\* run, and no table of the database has a cursor row.
C13_FullSyncOfNewDatabase ==
  [][(pc = "db_end" /\ loc.mode = "full" /\ pc' \in {"db_begin", "srv_summary"})
     => (/\ dbStatus'[CurDb].exists
         /\ dbStatus'[CurDb].last_full_sync = clock
         /\ \A t \in TableSetOf(CurDb) :
              /\ hist[t].out = "succeeded"
                 => (/\ dest'[t].exists
                     /\ dest'[t].rows = src[t]
                     /\ BagCardinality(dest'[t].rows) = BagCardinality(src[t]))
              /\ cursorStore'[t] = NoCursor)]_vars

\* C13 witness: the first run has ended the full sync of D1; its three
\* tables were synced and T3, with two source rows, has two destination rows.
C13_Witness ==
  /\ clock = 1
  /\ pc = "db_begin"
  /\ dbStatus["D1"].exists
  /\ dbStatus["D1"].last_full_sync = 1
  /\ dbStatus["D1"].last_incremental_sync = 0
  /\ \A t \in TableSetOf("D1") : hist[t].out = "succeeded" /\ cursorStore[t] = NoCursor
  /\ BagCardinality(src["T3"]) = 2
  /\ dest["T3"].rows = src["T3"]

\* C14: the pass over a database is a full sync exactly when the database
\* has no status row, and an incremental sync exactly when it has one; the
\* last full sync on record is never later than an incremental sync on
\* record (no full sync follows once the row exists).
C14_FullIffNoStatusRow ==
  /\ pc \in TableSteps \cup {"db_end"} =>
       /\ loc.mode \in {"full", "incr"}
       /\ loc.mode = "full" <=> ~dbStatus[CurDb].exists
  /\ \A d \in Databases :
       (dbStatus[d].exists /\ dbStatus[d].last_incremental_sync > 0)
       => dbStatus[d].last_full_sync < dbStatus[d].last_incremental_sync

\* C14 witness: the second run syncs D1 incrementally after the first run
\* synced it in full.
C14_Witness ==
  /\ pc \in TableSteps
  /\ CurDb = "D1"
  /\ loc.mode = "incr"
  /\ clock = 2
  /\ dbStatus["D1"].last_full_sync = 1


\* C15: the consistency record is a pure function of the two counts:
\* missing_rows = max(0, source - target), extra_rows = max(0, target -
\* source), consistency_percentage = target / source * 100 (0 for an empty
\* source), status CONSISTENT exactly when the counts are equal; (100, 100)
\* gives CONSISTENT, 100 percent, 0 and 0, and (100, 80) gives INCONSISTENT,
\* 80 percent, 20 missing and 0 extra.
C15_ConsistencyRecord ==
  fnRes # NoFn =>
    LET sc == fnArg.source_count
        tc == fnArg.target_count
        rec == fnRes.record
        pct == rec.consistency_percentage
    IN  /\ rec.source_count = sc /\ rec.target_count = tc
        /\ rec.missing_rows \in Nat /\ rec.extra_rows \in Nat
        /\ rec.missing_rows - rec.extra_rows = sc - tc
        /\ rec.missing_rows = 0 \/ rec.extra_rows = 0
        /\ pct.den > 0
        /\ IF sc = 0 THEN pct.num = 0 ELSE pct.num * sc = tc * 100 * pct.den
        /\ rec.status \in {"CONSISTENT", "INCONSISTENT"}
        /\ rec.status = "CONSISTENT" <=> sc = tc
        /\ (sc = 100 /\ tc = 100) =>
             /\ rec.status = "CONSISTENT" /\ pct.num = 100 * pct.den
             /\ rec.missing_rows = 0 /\ rec.extra_rows = 0
        /\ (sc = 100 /\ tc = 80) =>
             /\ rec.status = "INCONSISTENT" /\ pct.num = 80 * pct.den
             /\ rec.missing_rows = 20 /\ rec.extra_rows = 0

C15_Witness ==
  /\ fnRes # NoFn
  /\ fnArg.source_count = 100 /\ fnArg.target_count = 80
  /\ fnRes.record.status = "INCONSISTENT"
  /\ fnRes.record.missing_rows = 20

\* C16: a consistency check emits an alert exactly when source_count
\* differs from target_count, HIGH when consistency_percentage is below 95
\* and MEDIUM otherwise; equal counts emit no alert.
C16_AlertIffCountsDiffer ==
  fnRes # NoFn =>
    LET sc == fnArg.source_count
        tc == fnArg.target_count
        below == IF sc = 0 THEN TRUE ELSE tc * 100 < 95 * sc
    IN  /\ sc = tc => fnRes.alerts = {}
        /\ sc # tc => fnRes.alerts = {IF below THEN "HIGH" ELSE "MEDIUM"}

\* C17 as stated: overall_status is SUCCESS exactly when failed_syncs = 0,
\* FAILED exactly when successful_syncs = 0, and PARTIAL otherwise, for
\* every pair of counters, (0, 0) included.
C17_StatusAsStated ==
  fnRes # NoFn =>
    /\ fnRes.overall_status = "SUCCESS" <=> fnArg.failed_syncs = 0
    /\ fnRes.overall_status = "FAILED" <=> fnArg.successful_syncs = 0
    /\ fnRes.overall_status = "PARTIAL"
         <=> (fnArg.failed_syncs # 0 /\ fnArg.successful_syncs # 0)

\* C17: overall_status is SUCCESS exactly when failed_syncs = 0 (the pair
\* (0, 0) included), FAILED exactly when failed_syncs > 0 and
\* successful_syncs = 0, and PARTIAL exactly when both counters are positive.
C17_OverallStatus ==
  fnRes # NoFn =>
    /\ fnRes.overall_status \in {"SUCCESS", "FAILED", "PARTIAL"}
    /\ fnRes.overall_status = "SUCCESS" <=> fnArg.failed_syncs = 0
    /\ fnRes.overall_status = "FAILED"
         <=> (fnArg.failed_syncs > 0 /\ fnArg.successful_syncs = 0)
    /\ fnRes.overall_status = "PARTIAL"
         <=> (fnArg.failed_syncs > 0 /\ fnArg.successful_syncs > 0)

C17_Witness ==
  /\ fnRes # NoFn
  /\ fnArg.successful_syncs = 0 /\ fnArg.failed_syncs = 0
  /\ fnRes.overall_status = "SUCCESS"

\* C18: update_sync_status on an existing status row changes only the
\* timestamp of its kind (last_full_sync for 'full', last_incremental_sync
\* for 'incremental'), sync_status and updated_at; the other timestamp keeps
\* its value, and the row of no other database changes.
C18_UpdateStatusFrame ==
  (fnRes # NoFn /\ fnArg.table[fnArg.d].exists) =>
    LET old == fnArg.table[fnArg.d]
        new == fnRes.table[fnArg.d]
    IN  /\ new.exists
        /\ new.sync_status = fnArg.sync_status
        /\ new.updated_at = fnArg.now
        /\ new.created_at = old.created_at
        /\ fnArg.sync_type = "full" =>
             /\ new.last_full_sync = fnArg.now
             /\ new.last_incremental_sync = old.last_incremental_sync
        /\ fnArg.sync_type = "incr" =>
             /\ new.last_incremental_sync = fnArg.now
             /\ new.last_full_sync = old.last_full_sync
        /\ \A d \in StatusKeys \ {fnArg.d} : fnRes.table[d] = fnArg.table[d]
        /\ DOMAIN fnRes.table = StatusKeys

C18_Witness ==
  /\ fnRes # NoFn
  /\ fnArg.d = "D1" /\ fnArg.sync_type = "full"
  /\ fnArg.table["D1"].exists
  /\ fnArg.table["D1"].last_incremental_sync = 2
  /\ fnArg.table["D2"].exists
  /\ fnRes.table["D1"].last_full_sync = MaxStamp + 1
  /\ fnRes.table["D1"].last_incremental_sync = 2

\* C19: update_last_synced_pk is an idempotent upsert: after a second call
\* with the same target and value the stored last_value is the one the first
\* call left, the target has exactly one cursor row, and the cursor row of
\* every other target is neither changed nor removed.
C19_CursorUpsertIdempotent ==
  fnRes # NoFn =>
    LET mine == RowsOfTarget(fnRes.rows, fnArg.target)
    IN  /\ Cardinality(mine) = 1
        /\ \A r \in mine :
             /\ fnRes.rows[r] = 1
             /\ r.last_pk_value = PyStr(SyncType(fnArg.target), fnArg.pk_value)
        /\ \A r \in DOMAIN fnArg.rows :
             r.target # fnArg.target
               => (r \in DOMAIN fnRes.rows /\ fnRes.rows[r] = fnArg.rows[r])
        /\ \A r \in DOMAIN fnRes.rows :
             r.target # fnArg.target => r \in DOMAIN fnArg.rows
        /\ fnRes.rows = fnRes.first

C19_Witness ==
  /\ fnRes # NoFn
  /\ fnRes.runs = 2
  /\ fnArg.target = "U1"
  /\ RowsOfTarget(fnArg.rows, "U1") # {}
  /\ RowsOfTarget(fnArg.rows, "T1") # {}
  /\ fnRes.rows # fnArg.rows
  /\ fnRes.rows = fnRes.first

\* C20: a metadata probe that fails never marks the table failed: it counts
\* as "no suitable column", so the strategy is the one chosen for the same
\* table with the failing probes finding nothing, never the strategy of a
\* probe that failed, and smart sync when all three probes fail.
C20_ProbeFailureDegrades ==
  (fnRes # NoFn /\ fnRes.kind = "select") =>
    LET fail == fnArg.fail
        strat == fnRes.strat
    IN  /\ strat.sync_type \in {"primary_key", "timestamp", "unique_id", "smart_sync"}
        /\ fail.pk => strat.sync_type # "primary_key"
        /\ fail.ts => strat.sync_type # "timestamp"
        /\ fail.id => strat.sync_type # "unique_id"
        /\ (fail.pk /\ fail.ts /\ fail.id) => strat.sync_type = "smart_sync"
        /\ fnRes.turn # "failed"

\* The rows of B beyond a stored cursor of table t, in the order of the
\* sync column.
RowsBeyondIn(t, B, text) ==
  {r \in DOMAIN B : SqlRank(SyncType(t), r[SyncColumn(t)]) > CursorRank(t, text)}

RowsBeyond(t, text) == RowsBeyondIn(t, src[t], text)

\* The step of the run that takes the turn of the current table without a
\* fault.
CalmTurnStep ==
  /\ faults' = faults
  /\ exit' = exit
  /\ <<pc', pos'>> # <<pc, pos>>

\* C21: in incremental sync of a table with a cursor column and a stored
\* cursor, when no source row lies beyond the cursor the turn of the table
\* ends at once without a failure and with zero rows processed: the rows are
\* not selected, the destination and the cursor are unchanged.
C21_NoNewRowsNoWork ==
  [][(/\ pc = "i_read"
      /\ CurTable \in CursorTables
      /\ cursorStore[CurTable] # NoCursor
      /\ RowsBeyond(CurTable, cursorStore[CurTable]) = {}
      /\ CalmTurnStep)
     => (/\ pc' \in {"i_read", "db_end"}
         /\ hist'[CurTable].out = "nothing"
         /\ ~hist'[CurTable].read
         /\ dest' = dest
         /\ cursorStore' = cursorStore
         /\ cnt'.db.rows = cnt.db.rows
         /\ cnt'.db.failed = cnt.db.failed)]_vars

C21_Witness ==
  /\ hist["T1"].out = "nothing"
  /\ ~hist["T1"].read
  /\ cursorStore["T1"] # NoCursor
  /\ RowsBeyond("T1", cursorStore["T1"]) = {}
  /\ dest["T1"].exists

\* The greatest value of the sync column among the rows of a bag, in the
\* order of the column.
GreatestIn(t, B) ==
  CHOOSE v \in {r[SyncColumn(t)] : r \in DOMAIN B} :
    \A r \in DOMAIN B : SqlRank(SyncType(t), r[SyncColumn(t)]) <= SqlRank(SyncType(t), v)

\* C22: in incremental sync of a table with a cursor column and a stored
\* cursor c, when rows beyond c exist, the rows read are exactly the source
\* rows with column > c, the load appends exactly those rows and removes no
\* destination row, and when the turn succeeds the stored cursor is the
\* maximum of the column over the fetched rows.
C22_IncrementalAppendsBeyondCursor ==
  (/\ fnRes # NoFn /\ fnRes.kind = "turn"
   /\ fnArg.last_pk # NoCursor
   /\ RowsBeyondIn(fnArg.t, fnArg.rows, fnArg.last_pk) # {})
  => LET t == fnArg.t
         fetched == BagRestrict(fnArg.rows, RowsBeyondIn(t, fnArg.rows, fnArg.last_pk))
         loaded == BagOfAll(LAMBDA r : CsvRow(TableMeta(t), r), fetched)
     IN  /\ fnRes.turn.read
         /\ fnRes.turn.df = fetched
         /\ fnRes.turn.tab.exists
         /\ fnRes.turn.tab.rows = fnArg.tab.rows (+) loaded
         /\ fnRes.turn.out = "succeeded"
         /\ fnRes.turn.cursor = PyStr(SyncType(t), GreatestIn(t, fetched))

\* C23: in incremental sync of a table with a cursor column and no stored
\* cursor, the whole table is read, the destination table is replaced by
\* the rows read, and a cursor row holding the maximum of the column is
\* created exactly when at least one row was read.
C23_BootstrapReplacesAndSeeds ==
  (/\ fnRes # NoFn /\ fnRes.kind = "turn"
   /\ fnArg.last_pk = NoCursor)
  => LET t == fnArg.t
         loaded == BagOfAll(LAMBDA r : CsvRow(TableMeta(t), r), fnArg.rows)
     IN  /\ fnRes.turn.read
         /\ fnRes.turn.tab.exists
         /\ fnRes.turn.tab.rows = loaded
         /\ IF fnArg.rows = EmptyBag THEN fnRes.turn.cursor = NoCursor
            ELSE fnRes.turn.cursor = PyStr(SyncType(t), GreatestIn(t, fnArg.rows))

\* C24: every table that reached a successful load, in full sync and in
\* every incremental branch, has been validated: a consistency record of the
\* table, comparing the destination count with the source count, has been
\* written.
C24_EveryLoadValidated ==
  \A t \in TableIds :
    hist[t].out = "succeeded"
      => \E m \in metrics : m[1] = t /\ m[2] = "CONSISTENCY"

\* C25: every table-level failure is recorded: whenever a table is counted
\* in failed_syncs, in full or in incremental sync, a FAILED metric row and
\* an alert row of that table have been written.
C25_FailuresRecorded ==
  \A t \in TableIds :
    hist[t].out = "failed"
      => (/\ \E m \in metrics : m[1] = t /\ m[3] = "FAILED"
          /\ \E a \in alerts : a[3] = t)

\* C26: a connectivity failure for one database (its source connection
\* cannot be opened, or listing its tables fails) leaves the run in the loop
\* over the databases of the server, and the summary of the pass keeps the
\* counts of the databases already synced.
C26_DatabaseFailureIsolated ==
  [][/\ (pc = "db_begin" /\ faults' = faults + 1 /\ exit' # "killed")
        => (/\ pc' \in {"db_begin", "db_end", "srv_summary"}
            /\ cnt'.srv.successful_syncs = cnt.srv.successful_syncs)
     /\ (pc \in {"srv_summary", "srv_except"} /\ pc' \in {"server_begin", "main_end"})
        => cnt'.summary.successful_syncs >= cnt.srv.successful_syncs]_vars

\* The destination table and the cursor after two turns of the table taken
\* one after the other.
OneAfterTheOther ==
  IF fnArg.t \in CursorTables
  THEN LET first == IncrementalTurn(fnArg.t, fnArg.rows, fnArg.tab, fnArg.last_pk)
           second == IncrementalTurn(fnArg.t, fnArg.rows, first.tab, first.cursor)
       IN  [tab |-> second.tab, cursor |-> second.cursor]
  ELSE IF fnArg.rows = EmptyBag THEN [tab |-> fnArg.tab, cursor |-> fnArg.last_pk]
  ELSE LET first == SmartSync(fnArg.tab, Frame(fnArg.rows), FALSE, FALSE).tab
       IN  [tab |-> SmartSync(first, Frame(fnArg.rows), FALSE, FALSE).tab,
            cursor |-> fnArg.last_pk]

\* C27: two overlapping incremental or smart-sync turns of the same table
\* are merely wasteful: whatever the interleaving of their statements, when
\* both have ended the destination table and the stored cursor are those
\* that the two turns taken one after the other produce.
C27_OverlapEqualsSequence ==
  (fnRes.kind = "overlap" /\ \A i \in {1, 2} : fnRes.run[i].at = "done")
  => (fnRes.tab = OneAfterTheOther.tab /\ fnRes.cursor = OneAfterTheOther.cursor)

\* The rows of the source table as the load stores them.
RaceSourceRows ==
  SetToBag({CsvRow(TableMeta(fnArg.t), [k |-> v, n |-> 1]) : v \in fnArg.ks})

\* C28: two concurrent full syncs of the same destination table are not
\* serialized: a load replaces the table by whatever its process found in
\* the shared export file, so once both processes have ended without an
\* exception the table holds rows of the source, each at most once, and
\* not necessarily all of them.
C28_ConcurrentReplaceNotSerialized ==
  (/\ fnRes.kind = "race"
   /\ \E i \in {1, 2} : fnRes.run[i].at = "done")
  => (/\ fnRes.tab.exists
      /\ fnRes.tab.rows \sqsubseteq RaceSourceRows
      /\ \E i \in {1, 2} : fnRes.run[i].at = "done" /\ fnRes.tab.rows = fnRes.run[i].frame.rows)

\* C28 witness: both processes loaded, none raised, and the table holds only
\* part of the source rows.
C28_Witness ==
  /\ fnRes.kind = "race"
  /\ \A i \in {1, 2} : fnRes.run[i].at = "done"
  /\ fnRes.tab.exists
  /\ BagCardinality(fnRes.tab.rows) < Cardinality(fnArg.ks)

\* C29: a sync triggered for a server, a server and a database, or a server,
\* a database and a table reads and writes only tables of that scope.
C29_TriggerStaysInScope ==
  fnRes.kind = "trigger" =>
    \A w \in fnRes.touched :
      /\ w[1] = fnArg.server
      /\ fnArg.database # NoScope => w[2] = fnArg.database
      /\ fnArg.table # NoScope => w[3] = fnArg.table

\* The place of a table in the walk of a run over the servers, databases and
\* tables.
WalkIndex(t) == CHOOSE j \in 1..Len(Walk) : Walk[j][3] = t

\* C30: nothing is retried within a run: the table whose turn is under way
\* has not ended a turn in this run, the tables whose turn ended lie before
\* it in the walk, and an incremental turn works from the table's stored
\* cursor.
C30_NoRetryWithinRun ==
  pc \in TableSteps =>
    /\ hist[CurTable].out = "pending"
    /\ \A t \in TableIds : hist[t].out # "pending" => WalkIndex(t) < WalkIndex(CurTable)
    /\ pc = "i_cursor" => loc.last_pk = cursorStore[CurTable]

\* C30 witness: in a later run, after the turn of an earlier table failed,
\* an incremental turn goes on from the cursor the table had stored.
C30_Witness ==
  /\ clock = 2
  /\ pc = "i_cursor"
  /\ loc.last_pk # NoCursor
  /\ loc.last_pk = cursorStore[CurTable]
  /\ \E t \in TableIds : hist[t].out = "failed" /\ WalkIndex(t) < WalkIndex(CurTable)

\* C31: identifiers are sanitized consistently: the column names the
\* destination table is created with are the names the rows are loaded
\* under, and the destination schema name is the server name and the
\* database name, each with every character other than letters, digits,
\* '_' and '-' stripped, joined by '_'.
C31_SanitizedConsistently ==
  fnRes.kind = "columns" =>
    /\ ~fnRes.load.raised
    /\ fnRes.load.loaded = fnRes.load.created
    /\ fnRes.schema = Sanitize(fnArg.server) \o <<"_">> \o Sanitize(fnArg.db)

\* C37: two different (server, database, schema, table) targets have
\* different destination tables and different CSV export paths.
C37_DistinctTargetsDistinctTables ==
  (fnRes.kind = "targets" /\ fnArg.a # fnArg.b) =>
    /\ fnRes.dest.a # fnRes.dest.b
    /\ fnRes.path.a # fnRes.path.b

\* C32: with two overlapping incremental turns of a table, no step makes the
\* stored cursor smaller: a process that read an older maximum does not
\* overwrite the greater cursor the other process wrote.
C32_OverlapCursorNeverDecreases ==
  [][(fnRes.kind = "overlap" /\ fnRes.cursor # NoCursor)
     => (/\ fnRes'.cursor # NoCursor
         /\ CursorRank(fnArg.t, fnRes'.cursor) >= CursorRank(fnArg.t, fnRes.cursor))]_vars

\* The rows of the source table of t whose sync column is not below the
\* cursor text, as the load stores them; every row when there is no cursor.
RowsFrom(t, text) ==
  BagOfAll(LAMBDA r : CsvRow(TableMeta(t), r),
           BagRestrict(src[t],
                       {r \in DOMAIN src[t] :
                          IF text = NoCursor THEN TRUE
                          ELSE SqlRank(SyncType(t), r[SyncColumn(t)]) >= CursorRank(t, text)}))

\* C33: when no call has raised, and the incremental turn of a table with a
\* cursor column has ended without an exception, the destination holds every
\* source row whose column value is not below the cursor the turn started
\* from, the rows whose value equals that cursor included.
C33_EqualToCursorNotLeftOut ==
  faults = 0 =>
    \A t \in CursorTables :
      /\ (hist[t].out = "nothing" /\ cursorStore[t] # NoCursor)
         => (dest[t].exists /\ RowsFrom(t, cursorStore[t]) \sqsubseteq dest[t].rows)
      /\ (hist[t].out = "succeeded" /\ loc.mode = "incr")
         => (dest[t].exists /\ RowsFrom(t, hist[t].before) \sqsubseteq dest[t].rows)

\* The tables with a unique integer key as cursor column.
KeyedTables == {t \in CursorTables : HasPrimaryKey(t) /\ SyncType(t) = "int"}

RECURSIVE SumTables(_, _)
SumTables(ps, n) == IF n = 0 THEN 0 ELSE ps[n].tables + SumTables(ps, n - 1)

\* C36: a server without user databases does not stop the run: the run ends
\* as COMPLETED and its totals are those of the other servers.
C36_EmptyServerDoesNotStopRun ==
  (fnRes.kind = "main" /\ fnRes.run # "RUNNING") =>
    /\ fnRes.run = "COMPLETED"
    /\ fnRes.tot.tables = SumTables(fnArg.passes, Len(fnArg.passes))

\* The number of rows in the destination tables of the first n tables of
\* the walk that belong to server s.
RECURSIVE DestRowsOf(_, _)
DestRowsOf(s, n) ==
  IF n = 0 THEN 0
  ELSE DestRowsOf(s, n - 1)
       + (IF Walk[n][1] = s THEN BagCardinality(dest[Walk[n][3]].rows) ELSE 0)

\* The tables of server s that are synced.
SyncedTablesOf(s) ==
  {Walk[j][3] : j \in {i \in 1..Len(Walk) : Walk[i][1] = s /\ Walk[i][3] # "S0"}}

\* C38: rows_inserted in the summary of a server pass is the number of rows
\* the pass added to the destination tables.  Stated for the first pass of
\* the first server when no call raised, every synced table of the server
\* held one row before the run and no table was loaded by replacement: the
\* rows added are the rows the tables hold beyond that one.
C38_RowsInsertedIsRowsAdded ==
  (/\ clock = 1 /\ faults = 0
   /\ pc = "server_begin" /\ pos.si = 2
   /\ cnt.summary.kind = "dict"
   /\ \A i \in 1..Len(DatabasesOf(Servers[1])) :
        LET d == DatabasesOf(Servers[1])[i]
        IN  dbStatus[d].exists /\ dbStatus[d].created_at = 0
   /\ \A t \in SyncedTablesOf(Servers[1]) \cap CursorTables :
        hist[t].out = "nothing" \/ hist[t].before # NoCursor)
  => cnt.summary.rows_inserted
       = DestRowsOf(Servers[1], Len(Walk)) - Cardinality(SyncedTablesOf(Servers[1]))

\* C39: once delete_schedule has returned 'deleted' for a job, the job's
\* loop starts no further sync run, whatever the interleaving of the
\* request with the loop's statements.
C39_NoRunAfterDelete ==
  fnRes.kind = "schedule" =>
    \A j \in {"J1", "J2"} :
      /\ ~fnRes.job[j].late
      /\ j \notin fnRes.schedules => fnRes.stop_flags[j]

====
